---- MODULE Spec2Model ----
(***************************************************************************)
(* A model of shepherd's archive extraction (eventUseCase.extractZip and   *)
(* the package detector's unzipToTempDir), of async.Dispatch, of the       *)
(* webhook handler, of the event processor, of the serve command and of    *)
(* the package detector.  Each subsystem has its own specification over    *)
(* the shared variables: SpecExtract, SpecDispatch, SpecDispatchFair,      *)
(* SpecWebhook, SpecProcessor, SpecSupported, SpecServe, SpecDetector.     *)
(***************************************************************************)
EXTENDS Integers, Sequences, FiniteSets, TLC

VARIABLES
    \* ---- one extraction call ----
    routine,         \* "extractZip" or "unzipToTempDir"
    zipData,         \* the archive bytes: [valid, files]
    xpc,             \* "start", "loop", "returned"
    idx,             \* index of the next entry of zipReader.File
    tempDir,         \* path of the temporary directory, <<>> before MkdirTemp
    fs,              \* the file system: path -> "dir" or a file's content
    totalSize,       \* running total of declared sizes (extractZip)
    extractedFiles,  \* names appended so far (extractZip)
    result,          \* returned value: Nil, a DownloadResult or a directory path
    err,             \* returned error: Nil or [kind, cause]
    failure,         \* the operation that failed first, Nil if none
    opened,          \* indices of the entries on which file.Open was called
    created,         \* <<i, path>>: path was created or written for entry i
    rmFailed,        \* os.RemoveAll of the temporary directory reported an error
    xlog,            \* log lines of the extraction call
    \* ---- dispatched tasks ----
    tasks,           \* task id -> the Dispatch call and its goroutine
    cancelState,     \* task id -> state of the caller's context
    procAlive,       \* FALSE once an unrecovered panic ended the process
    \* ---- webhook requests ----
    detector,        \* whether the handler has a package detector use case
    reqs,            \* the requests handled so far
    resp,            \* request -> the status written to the sender
    ucCalls,         \* the events ProcessEvent was invoked with
    \* ---- EventProcessor.ProcessEvent and the use case it calls ----
    ppc,             \* "start", "usecase" (the archive is being extracted), "returned"
    pEvent,          \* the event type and payload ProcessEvent is called with
    pErr,            \* the error ProcessEvent returned
    releaseCalls,    \* the ReleaseInfo of each ProcessRelease call
    sourceCalls,     \* the SourceInfo of each ProcessSource call by the processor
    downloads,       \* the arguments of each DownloadZipball call
    ucOut,           \* what the use case returned: result and error
    pRmFailed,       \* whether the processor's os.RemoveAll failed
    \* ---- WebhookEvent.IsSupportedEvent ----
    checked,         \* the events it was called on, each with its result
    \* ---- the serve command ----
    spc,             \* "serving", "check" and "select" (inside Shutdown), "returned"
    sTrigger,        \* what ended the wait: Nil, "signal" or "context"
    ctxDone,         \* the command context is cancelled
    elapsed,         \* seconds since the shutdown context was created
    inflight,        \* requests being served
    listening,       \* the listener accepts connections
    sErr,            \* the error the command returned
    sawDeadline,     \* Shutdown ended because the 10 seconds had passed
    \* ---- the package detector ----
    gEntry,          \* the method called: "DetectPackageUpdate" or "ExtractPackageVersionSources"
    gInput,          \* the payload, the LLM's answer and the detection it carries
    gpc,             \* "start", "detected", "extract", "loop", "returned"
    gOps,            \* the operations on the collaborators and the file system, in order
    gDirs,           \* the temporary directories that exist
    gRmFailed,       \* the directories whose os.RemoveAll failed
    gDeferred,       \* the directories of the deferred cleanup functions, in defer order
    gIdx,            \* index of the package the loop is at
    gPhase,          \* "from" or "to": the version extracted next
    gFailures,       \* number of versions whose extraction failed
    gExtract,        \* ExtractPackageVersionSources: "not called", "running", "returned"
    gExErr,          \* the error ExtractPackageVersionSources returned
    gErr             \* the error the called method returned

exVars == <<routine, zipData, xpc, idx, tempDir, fs, totalSize, extractedFiles,
            result, err, failure, opened, created, rmFailed, xlog>>

dVars == <<tasks, cancelState, procAlive>>

wVars == <<detector, reqs, resp, ucCalls>>

pVars == <<ppc, pEvent, pErr, releaseCalls, sourceCalls, downloads, ucOut, pRmFailed>>

mVars == <<checked>>

sVars == <<spc, sTrigger, ctxDone, elapsed, inflight, listening, sErr, sawDeadline>>

gVars == <<gEntry, gInput, gpc, gOps, gDirs, gRmFailed, gDeferred, gIdx, gPhase,
           gFailures, gExtract, gExErr, gErr>>

vars == <<exVars, dVars, wVars, pVars, mVars, sVars, gVars>>

Nil == "nil"

(***************************************************************************)
(* Sizes are counted in KiB, so that the 10 GiB ceiling is a machine       *)
(* integer of TLC;         the comparisons of the code are kept.           *)
(***************************************************************************)
maxFileSize == 1 * 1024 * 1024

maxTotalSize == 10 * 1024 * 1024

(***************************************************************************)
(* Paths.  A path is the sequence of its elements; an archive entry's name *)
(* is the sequence obtained by splitting it at "/", so that "/a" is        *)
(* <<"", "a">> and "../e" is <<"..", "e">>.                                *)
(***************************************************************************)
RECURSIVE CleanFrom(_, _)
CleanFrom(acc, elems) ==
    IF elems = <<>> THEN acc
    ELSE LET e == Head(elems) IN
         IF e = "" \/ e = "." THEN CleanFrom(acc, Tail(elems))
         ELSE IF e = ".."
              THEN CleanFrom(IF acc = <<>> THEN acc
                             ELSE SubSeq(acc, 1, Len(acc) - 1), Tail(elems))
              ELSE CleanFrom(Append(acc, e), Tail(elems))

\* filepath.Clean of an absolute path
Clean(p) == CleanFrom(<<>>, p)

\* filepath.Join(dir, name): the elements joined, then cleaned
Join(dir, name) == Clean(dir \o name)

\* filepath.Dir of a clean absolute path
Dir(p) == IF p = <<>> THEN p ELSE SubSeq(p, 1, Len(p) - 1)

\* The pairs (a, b) of path elements where string a is a strict prefix of b
StrictPrefixPairs ==
    { <<"shepherd-release-1", "shepherd-release-10">>,
      <<"shepherd-package-1", "shepherd-package-10">> }

StrPrefix(a, b) == a = b \/ <<a, b>> \in StrictPrefixPairs

\* An extractor without the check of the destination path
InsideRoot_Unchecked(destPath, destDir) == TRUE

\* strings.HasPrefix(destPath, filepath.Clean(destDir)) on the paths' strings:
\* the check without the separator, which admits a sibling of the root
InsideRoot_NoSeparator(destPath, destDir) ==
    LET root == Clean(destDir)
        n == Len(root)
    IN  IF n = 0 THEN TRUE
        ELSE /\ Len(destPath) >= n
             /\ SubSeq(destPath, 1, n - 1) = SubSeq(root, 1, n - 1)
             /\ StrPrefix(root[n], destPath[n])

\* strings.HasPrefix(destPath, filepath.Clean(destDir)+string(os.PathSeparator))
InsideRoot(destPath, destDir) ==
    /\ Len(destPath) > Len(Clean(destDir))
    /\ SubSeq(destPath, 1, Len(Clean(destDir))) = Clean(destDir)

(***************************************************************************)
(* The file system.                                                        *)
(***************************************************************************)
IsDirAt(fsv, p) == p \in DOMAIN fsv /\ fsv[p] = "dir"

IsFileAt(fsv, p) == p \in DOMAIN fsv /\ fsv[p] # "dir"

Prefixes(p) == { SubSeq(p, 1, n) : n \in 0..Len(p) }

\* os.MkdirAll fails when the path or one of its ancestors is a file
MkdirAllBlocked(fsv, p) == \E q \in Prefixes(p) : IsFileAt(fsv, q)

\* os.MkdirAll(p): p and every missing ancestor become directories
MkdirAll(fsv, p) ==
    [q \in DOMAIN fsv \cup Prefixes(p) |->
        IF q \in DOMAIN fsv THEN fsv[q] ELSE "dir"]

\* A file opened for appending: earlier content is kept
WriteFile_KeepOld(fsv, p, c) ==
    [q \in DOMAIN fsv \cup {p} |->
        IF q = p /\ q \notin DOMAIN fsv THEN c ELSE IF q = p THEN fsv[q] ELSE fsv[q]]

\* os.OpenFile(p, O_WRONLY|O_CREATE|O_TRUNC) followed by io.Copy of content c
WriteFile(fsv, p, c) ==
    [q \in DOMAIN fsv \cup {p} |-> IF q = p THEN c ELSE fsv[q]]

\* os.RemoveAll(dir): dir and everything below it
RemoveAll(fsv, dir) ==
    [q \in { r \in DOMAIN fsv : ~(Len(r) >= Len(dir) /\ SubSeq(r, 1, Len(dir)) = dir) }
        |-> fsv[q]]

(***************************************************************************)
(* Errors.  An error is the chain of its messages, the cause last:         *)
(* fmt.Errorf("...: %w", err) and goerr.Wrap put a message in front.       *)
(***************************************************************************)
NewError(kind) == <<kind>>

Wrap(msg, e) == <<msg>> \o e

Cause(e) == e[Len(e)]

(***************************************************************************)
(* Archives.  An entry of zipReader.File: its name, whether FileInfo()     *)
(* says it is a directory, its declared UncompressedSize64, its content,   *)
(* and whether its compressed stream is corrupt (io.Copy then fails after  *)
(* part of the content was written).                                       *)
(***************************************************************************)
Entry(name, dir, size, content, bad) ==
    [name |-> name, dir |-> dir, size |-> size, content |-> content, bad |-> bad]

\* An entry of the largest size a single file may declare
FullEntry == Entry(<<"pad">>, FALSE, maxFileSize, "p", FALSE)

Entries ==
    { Entry(<<"a">>, FALSE, maxFileSize, "c1", FALSE),
      Entry(<<"a">>, FALSE, 1, "c2", FALSE),
      Entry(<<"d">>, TRUE, 0, "", FALSE),
      Entry(<<"d", "f">>, FALSE, 0, "c3", FALSE),
      Entry(<<"b">>, FALSE, 2, "c4", TRUE),
      Entry(<<"big">>, FALSE, maxFileSize + 1, "c5", FALSE),
      Entry(<<"..", "e">>, FALSE, 1, "c6", FALSE),
      Entry(<<"..", "shepherd-release-10", "f">>, FALSE, 1, "c7", FALSE),
      Entry(<<"..", "shepherd-package-10">>, TRUE, 0, "", FALSE),
      Entry(<<"d", "..">>, TRUE, 0, "", FALSE),
      Entry(<<"d", "..", "g">>, FALSE, 1, "c9", FALSE),
      Entry(<<".">>, FALSE, 1, "c10", FALSE),
      Entry(<<"", "abs">>, FALSE, 1, "c8", FALSE) }

\* Number of leading maximal entries an archive may have
MaxPad == 10

RECURSIVE Pad(_)
Pad(n) == IF n = 0 THEN <<>> ELSE Append(Pad(n - 1), FullEntry)

Tails ==
    {<<>>} \cup { <<e>> : e \in Entries }
           \cup { <<e1, e2>> : e1 \in Entries, e2 \in Entries }

\* The inputs of an extraction call: unparseable bytes, or a ZIP archive
Archives ==
    { [valid |-> FALSE, files |-> <<>>] }
    \cup { [valid |-> TRUE, files |-> Pad(n) \o t] : n \in 0..MaxPad, t \in Tails }

\* os.MkdirTemp("", "shepherd-release-*") / os.MkdirTemp("", "shepherd-package-*")
TempName(r) ==
    IF r = "extractZip" THEN <<"tmp", "shepherd-release-1">>
    ELSE <<"tmp", "shepherd-package-1">>

InitFS == [p \in {<<>>, <<"tmp">>} |-> "dir"]

(***************************************************************************)
(* The outcome of handling one entry: the error (Nil if none), the file    *)
(* system afterwards, whether file.Open was called on the entry, and the   *)
(* paths created or written.                                               *)
(***************************************************************************)
Outcome(e, fsv, op, made) == [err |-> e, fs |-> fsv, opened |-> op, created |-> made]

\* What a step may suffer from its environment
EntryFaults == {"none", "open", "mkdir", "create", "copy"}

New(fsv, fs2) == DOMAIN fs2 \ DOMAIN fsv

\* eventUseCase.extractFile(file, destDir)
extractFile(file, destDir, fsv, fault) ==
    LET destPath == Join(destDir, file.name)
        parent == Dir(destPath)
        fs1 == MkdirAll(fsv, parent)
    IN  IF ~InsideRoot(destPath, destDir)
        THEN Outcome(NewError("invalid file path detected"), fsv, FALSE, {})
        ELSE IF fault = "open"
        THEN Outcome(Wrap("failed to open file in zip", NewError("open")), fsv, TRUE, {})
        ELSE IF file.dir
        THEN IF fault = "mkdir" \/ MkdirAllBlocked(fsv, destPath)
             THEN Outcome(NewError("mkdir"), fsv, TRUE, {})
             ELSE Outcome(Nil, MkdirAll(fsv, destPath), TRUE,
                          New(fsv, MkdirAll(fsv, destPath)))
        ELSE IF fault = "mkdir" \/ MkdirAllBlocked(fsv, parent)
        THEN Outcome(Wrap("failed to create parent directories", NewError("mkdir")),
                     fsv, TRUE, {})
        ELSE IF fault = "create" \/ IsDirAt(fs1, destPath)
        THEN Outcome(Wrap("failed to create destination file", NewError("create")),
                     fs1, TRUE, New(fsv, fs1))
        ELSE IF fault = "copy" \/ file.bad
        THEN Outcome(Wrap("failed to copy file content", NewError("copy")),
                     WriteFile(fs1, destPath, "partial"), TRUE,
                     New(fsv, fs1) \cup {destPath})
        ELSE Outcome(Nil, WriteFile(fs1, destPath, file.content), TRUE,
                     New(fsv, fs1) \cup {destPath})

\* The loop body without the per-file check
extractZipEntry_NoFileLimit(file, destDir, fsv, total, fault) ==
    IF total + file.size > maxTotalSize
    THEN Outcome(NewError("total uncompressed size too large"), fsv, FALSE, {})
    ELSE extractFile(file, destDir, fsv, fault)

\* The loop body comparing the total before the entry, not including it
extractZipEntry_OldTotal(file, destDir, fsv, total, fault) ==
    IF file.size > maxFileSize
    THEN Outcome(NewError("file too large"), fsv, FALSE, {})
    ELSE IF total > maxTotalSize
    THEN Outcome(NewError("total uncompressed size too large"), fsv, FALSE, {})
    ELSE extractFile(file, destDir, fsv, fault)

\* One iteration of extractZip's loop over zipReader.File, up to the append
extractZipEntry(file, destDir, fsv, total, fault) ==
    IF file.size > maxFileSize
    THEN Outcome(NewError("file too large"), fsv, FALSE, {})
    ELSE IF total + file.size > maxTotalSize
    THEN Outcome(NewError("total uncompressed size too large"), fsv, FALSE, {})
    ELSE LET out == extractFile(file, destDir, fsv, fault)
         IN  IF out.err = Nil THEN out
             ELSE [out EXCEPT !.err = Wrap("failed to extract file", out.err)]

\* The package detector's extractFile(file, destPath)
pkgExtractFile(file, destPath, fsv, fault) ==
    IF fault = "open"
    THEN Outcome(Wrap("failed to open file in zip", NewError("open")), fsv, TRUE, {})
    ELSE IF fault = "create" \/ IsDirAt(fsv, destPath)
    THEN Outcome(Wrap("failed to create destination file", NewError("create")),
                 fsv, TRUE, {})
    ELSE IF fault = "copy" \/ file.bad
    THEN Outcome(Wrap("failed to copy file content", NewError("copy")),
                 WriteFile(fsv, destPath, "partial"), TRUE, {destPath})
    ELSE Outcome(Nil, WriteFile(fsv, destPath, file.content), TRUE, {destPath})

\* One iteration of unzipToTempDir's loop over zipReader.File
unzipEntry(file, tmpDir, fsv, fault) ==
    LET destPath == Join(tmpDir, file.name)
        cleanPath == Clean(destPath)
        parent == Dir(destPath)
        fs1 == MkdirAll(fsv, parent)
        out == pkgExtractFile(file, destPath, fs1, fault)
    IN  IF ~InsideRoot(cleanPath, tmpDir)
        THEN Outcome(NewError("invalid file path in zip"), fsv, FALSE, {})
        ELSE IF file.dir
        THEN IF fault = "mkdir" \/ MkdirAllBlocked(fsv, destPath)
             THEN Outcome(Wrap("failed to create directory", NewError("mkdir")),
                          fsv, FALSE, {})
             ELSE Outcome(Nil, MkdirAll(fsv, destPath), FALSE,
                          New(fsv, MkdirAll(fsv, destPath)))
        ELSE IF fault = "mkdir" \/ MkdirAllBlocked(fsv, parent)
        THEN Outcome(Wrap("failed to create parent directory", NewError("mkdir")),
                     fsv, FALSE, {})
        ELSE IF out.err = Nil
        THEN [out EXCEPT !.created = @ \cup New(fsv, fs1)]
        ELSE [out EXCEPT !.err = Wrap("failed to extract file", @),
                         !.created = @ \cup New(fsv, fs1)]

(***************************************************************************)
(* Cleanup.  os.RemoveAll may itself fail; extractZip logs that and        *)
(* unzipToTempDir ignores it.                                              *)
(***************************************************************************)
TryRemoveAll(fsv, dir, fails) == IF fails THEN fsv ELSE RemoveAll(fsv, dir)

\* A cleanup that was forgotten
DeferredCleanup_Skip(success, fsv, dir, fails) == fsv

\* A cleanup that does not look at the success flag
DeferredCleanup_Always(success, fsv, dir, fails) == TryRemoveAll(fsv, dir, fails)

\* extractZip's deferred function
DeferredCleanup(success, fsv, dir, fails) ==
    IF success THEN fsv ELSE TryRemoveAll(fsv, dir, fails)

DeferredCleanupLog(success, fails) ==
    IF success THEN <<>>
    ELSE IF fails THEN <<"Failed to clean up temporary directory on error">>
    ELSE <<"Cleaned up temporary directory on error">>

\* The error a failing call returns: the deferred cleanup leaves it alone
ReturnedError(e, removalFailed) == e

\* The value a failing call returns beside its error
EmptyResult(r) == IF r = "extractZip" THEN Nil ELSE <<>>

\* A return with error e after the temporary directory dir was created:
\* the file system fsv is cleaned up on the way out
ReturnError(e, fsv, dir) ==
    \E fails \in BOOLEAN :
        /\ xpc' = "returned"
        /\ err' = ReturnedError(e, fails)
        /\ failure' = Cause(e)
        /\ result' = EmptyResult(routine)
        /\ rmFailed' = fails
        /\ fs' = IF routine = "extractZip"
                 THEN DeferredCleanup(FALSE, fsv, dir, fails)
                 ELSE TryRemoveAll(fsv, dir, fails)
        /\ xlog' = IF routine = "extractZip"
                   THEN xlog \o DeferredCleanupLog(FALSE, fails)
                   ELSE xlog

\* os.MkdirTemp, os.Chmod (extractZip only) and zip.NewReader
ExtractStart ==
    /\ xpc = "start"
    /\ \E fault \in {"none", "mkdirtemp", "chmod"} :
         LET dir == TempName(routine)
             fs1 == [p \in DOMAIN fs \cup {dir} |-> IF p = dir THEN "dir" ELSE fs[p]]
         IN  IF fault = "mkdirtemp"
             THEN /\ xpc' = "returned"
                  /\ err' = Wrap("failed to create temporary directory",
                                 NewError("mkdirtemp"))
                  /\ failure' = "mkdirtemp"
                  /\ result' = EmptyResult(routine)
                  /\ UNCHANGED <<tempDir, fs, rmFailed, xlog, idx>>
             ELSE /\ tempDir' = dir
                  /\ IF fault = "chmod" /\ routine = "extractZip"
                     THEN /\ ReturnError(Wrap("failed to set directory permissions",
                                              NewError("chmod")), fs1, dir)
                          /\ UNCHANGED idx
                     ELSE IF ~zipData.valid
                     THEN /\ ReturnError(Wrap("failed to create zip reader",
                                              NewError("zip: not a valid zip file")),
                                         fs1, dir)
                          /\ UNCHANGED idx
                     ELSE /\ fault = "none"
                          /\ xpc' = "loop"
                          /\ idx' = 1
                          /\ fs' = fs1
                          /\ xlog' = IF routine = "extractZip"
                                     THEN Append(xlog, "Created temporary directory")
                                     ELSE xlog
                          /\ UNCHANGED <<err, failure, result, rmFailed>>
    /\ UNCHANGED <<routine, zipData, totalSize, extractedFiles, opened, created>>
    /\ UNCHANGED <<dVars, wVars, pVars, mVars, sVars, gVars>>

\* One iteration of the loop over zipReader.File
ExtractEntry ==
    /\ xpc = "loop"
    /\ idx <= Len(zipData.files)
    /\ \E fault \in EntryFaults :
         LET file == zipData.files[idx]
             out == IF routine = "extractZip"
                    THEN extractZipEntry(file, tempDir, fs, totalSize, fault)
                    ELSE unzipEntry(file, tempDir, fs, fault)
         IN  /\ opened' = IF out.opened THEN opened \cup {idx} ELSE opened
             /\ created' = created \cup { <<idx, q>> : q \in out.created }
             /\ IF out.err # Nil
                THEN /\ ReturnError(out.err, out.fs, tempDir)
                     /\ UNCHANGED <<idx, totalSize, extractedFiles>>
                ELSE /\ fs' = out.fs
                     /\ idx' = idx + 1
                     /\ IF routine = "extractZip"
                        THEN /\ extractedFiles' = Append(extractedFiles, file.name)
                             /\ totalSize' = totalSize + file.size
                        ELSE UNCHANGED <<extractedFiles, totalSize>>
                     /\ UNCHANGED <<xpc, err, failure, result, rmFailed, xlog>>
    /\ UNCHANGED <<routine, zipData, tempDir>>
    /\ UNCHANGED <<dVars, wVars, pVars, mVars, sVars, gVars>>

\* The loop is over: the successful return
ExtractFinish ==
    /\ xpc = "loop"
    /\ idx > Len(zipData.files)
    /\ xpc' = "returned"
    /\ err' = Nil
    /\ result' = IF routine = "extractZip"
                 THEN [TempDir |-> tempDir, Files |-> extractedFiles, Size |-> totalSize]
                 ELSE tempDir
    /\ fs' = IF routine = "extractZip"
             THEN DeferredCleanup(TRUE, fs, tempDir, FALSE)
             ELSE fs
    /\ UNCHANGED <<routine, zipData, idx, tempDir, totalSize, extractedFiles,
                   failure, opened, created, rmFailed, xlog>>
    /\ UNCHANGED <<dVars, wVars, pVars, mVars, sVars, gVars>>

\* No extraction call is under way
ExtractIdle(r, z) ==
    /\ routine = r
    /\ zipData = z
    /\ xpc = "start"
    /\ idx = 0
    /\ tempDir = <<>>
    /\ fs = InitFS
    /\ totalSize = 0
    /\ extractedFiles = <<>>
    /\ result = Nil
    /\ err = Nil
    /\ failure = Nil
    /\ opened = {}
    /\ created = {}
    /\ rmFailed = FALSE
    /\ xlog = <<>>

\* No task was dispatched
DispatchIdle ==
    /\ tasks = <<>>
    /\ cancelState = <<>>
    /\ procAlive = TRUE

\* No request was received
WebhookIdle(d) ==
    /\ detector = d
    /\ reqs = <<>>
    /\ resp = <<>>
    /\ ucCalls = <<>>

\* A payload of the go-github types the processor handles; "nil" is no
\* payload.  A pointer field that is nil is recorded by its has-flag.
Payload(kind, action, hasRepo, owner, name, hasRelease, target, hasHead, headID) ==
    [kind |-> kind, action |-> action, hasRepo |-> hasRepo, owner |-> owner,
     name |-> name, hasRelease |-> hasRelease, target |-> target,
     hasHead |-> hasHead, headID |-> headID]

NoPayload == Payload("nil", Nil, FALSE, "", "", FALSE, "", FALSE, "")

\* What a use case returned: whether it has returned, whether the result
\* is non-nil, the result's TempDir and the error
UseCaseOutcome(returned, hasResult, dir, e) ==
    [returned |-> returned, hasResult |-> hasResult, TempDir |-> dir, err |-> e]

NoOutcome == UseCaseOutcome(FALSE, FALSE, <<>>, Nil)

\* ProcessEvent was not called
ProcessorIdle(e) ==
    /\ ppc = "start"
    /\ pEvent = e
    /\ pErr = Nil
    /\ releaseCalls = <<>>
    /\ sourceCalls = <<>>
    /\ downloads = <<>>
    /\ ucOut = NoOutcome
    /\ pRmFailed = FALSE

NoEvent == [eventType |-> "", payload |-> NoPayload]

\* IsSupportedEvent was not called
ModelIdle == checked = <<>>

\* The serve command's server listens, nothing has triggered a shutdown
ServeIdle ==
    /\ spc = "serving"
    /\ sTrigger = Nil
    /\ ctxDone = FALSE
    /\ elapsed = 0
    /\ inflight = 0
    /\ listening = TRUE
    /\ sErr = Nil
    /\ sawDeadline = FALSE

\* A detection as the LLM answers it
Detection(isUpdate, language, packages) ==
    [IsPackageUpdate |-> isUpdate, Language |-> language, Packages |-> packages]

\* What a call of the package detector is given
DetectorInput(payloadOK, llm, detection) ==
    [payloadOK |-> payloadOK, llm |-> llm, detection |-> detection]

\* The package detector is called with input in through method entry and has
\* done nothing yet
DetectorCalled(entry, in) ==
    /\ gEntry = entry
    /\ gInput = in
    /\ gpc = IF entry = "DetectPackageUpdate" THEN "start" ELSE "extract"
    /\ gOps = <<>>
    /\ gDirs = {}
    /\ gRmFailed = {}
    /\ gDeferred = <<>>
    /\ gIdx = 1
    /\ gPhase = "from"
    /\ gFailures = 0
    /\ gExtract = "not called"
    /\ gExErr = Nil
    /\ gErr = Nil

\* The package detector is not called
DetectorIdle ==
    DetectorCalled("DetectPackageUpdate",
                   DetectorInput(FALSE, "ok", Detection(FALSE, <<>>, <<>>)))

InitExtract ==
    /\ DispatchIdle
    /\ WebhookIdle(FALSE)
    /\ ProcessorIdle(NoEvent)
    /\ ModelIdle
    /\ ServeIdle
    /\ DetectorIdle
    /\ \E r \in {"extractZip", "unzipToTempDir"}, z \in Archives : ExtractIdle(r, z)

NextExtract ==
    \/ ExtractStart
    \/ ExtractEntry
    \/ ExtractFinish

SpecExtract == InitExtract /\ [][NextExtract]_vars

(***************************************************************************)
(* Properties of the extraction routines.                                  *)
(***************************************************************************)
Files == zipData.files

\* p lies strictly below root
StrictlyUnder(p, root) ==
    /\ Len(p) > Len(root)
    /\ \A i \in 1..Len(root) : p[i] = root[i]

FailedAfterMkdirTemp == xpc = "returned" /\ err # Nil /\ tempDir # <<>>

NothingLeft == \A p \in DOMAIN fs : p # tempDir /\ ~StrictlyUnder(p, tempDir)

NoResult ==
    /\ routine = "extractZip" => result = "nil"
    /\ routine = "unzipToTempDir" => result = <<>>

\* C1 as stated: whenever an extraction routine fails after its temporary
\* directory was created, the directory no longer exists on return, the
\* result is nil/empty and the error is the original failure.
C1_AlwaysRemoved ==
    FailedAfterMkdirTemp =>
        /\ NothingLeft
        /\ NoResult
        /\ err[Len(err)] = failure

\* C1, amended: whenever an extraction routine fails after its temporary
\* directory was created, the result is nil/empty and the error is the
\* original failure; and unless the removal of the directory itself
\* failed, neither the directory nor anything below it exists on return.
C1_RemovedUnlessRemovalFails ==
    FailedAfterMkdirTemp =>
        /\ ~rmFailed => NothingLeft
        /\ NoResult
        /\ err[Len(err)] = failure

\* C1 witness: a failure at a later entry, after earlier entries were
\* written, with the directory gone
C1_Witness ==
    /\ FailedAfterMkdirTemp
    /\ idx >= 2
    /\ created # {}
    /\ ~rmFailed
    /\ NothingLeft

\* C2: every path created or written for an archive entry lies strictly
\* inside the call's temporary directory, and the file system outside the
\* temporary directory is as it was before the call.
C2_Containment ==
    /\ \A c \in created : tempDir # <<>> /\ StrictlyUnder(c[2], tempDir)
    /\ \A p \in DOMAIN fs :
          \/ p \in DOMAIN InitFS /\ fs[p] = InitFS[p]
          \/ tempDir # <<>> /\ (p = tempDir \/ StrictlyUnder(p, tempDir))

\* C2 witness: a call that wrote entries and then rejected an entry whose
\* name leads out of the root
C2_Witness ==
    /\ xpc = "returned"
    /\ err # Nil
    /\ created # {}
    /\ idx <= Len(Files)
    /\ Head(Files[idx].name) = ".."

RECURSIVE SumSizes(_, _)
SumSizes(files, n) == IF n = 0 THEN 0 ELSE SumSizes(files, n - 1) + files[n].size

\* The entries whose running total, themselves included, exceeds the ceiling
Crossing == { i \in 1..Len(Files) : SumSizes(Files, i) > 10 * 1024 * 1024 }

FirstCrossing == CHOOSE k \in Crossing : \A j \in Crossing : k <= j

Oversize == { i \in 1..Len(Files) : Files[i].size > 1024 * 1024 }

CreatedFor(i) == { c \in created : c[1] = i }

\* C6: in extractZip an entry whose declared size exceeds the per-file
\* ceiling is never opened and nothing is created for it, the call never
\* gets past it, and the "file too large" failure is returned only at an
\* entry whose declared size is strictly greater than the ceiling.
C6_PerFileQuota ==
    routine = "extractZip" =>
        /\ \A i \in Oversize : i \notin opened /\ CreatedFor(i) = {} /\ idx <= i
        /\ (xpc = "returned" /\ err # Nil /\ err[Len(err)] = "file too large")
              => idx \in Oversize
        /\ (xpc = "returned" /\ idx \in 1..Len(Files) /\ Files[idx].size = 1024 * 1024)
              => (err = Nil \/ err[Len(err)] # "file too large")

\* C6 witness: extractZip returned "file too large" at an oversize entry
\* after extracting an entry of exactly the ceiling
C6_Witness ==
    /\ routine = "extractZip"
    /\ xpc = "returned"
    /\ err # Nil
    /\ err[Len(err)] = "file too large"
    /\ idx >= 2
    /\ Files[idx - 1].size = 1024 * 1024
    /\ (idx - 1) \in opened

\* C7: extractZip never opens or creates anything for the first entry at
\* which the running total exceeds the total ceiling, nor for a later one;
\* it returns the total-size failure only at that entry, with every
\* earlier entry extracted; an archive whose running total never exceeds
\* the ceiling is never rejected for this reason.
C7_TotalQuota ==
    routine = "extractZip" =>
        /\ Crossing # {} =>
              /\ idx <= FirstCrossing
              /\ \A i \in FirstCrossing..Len(Files) :
                    i \notin opened /\ CreatedFor(i) = {}
              /\ (xpc = "returned" /\ idx = FirstCrossing) => err # Nil
        /\ (xpc = "returned" /\ err # Nil
              /\ err[Len(err)] = "total uncompressed size too large")
              => /\ Crossing # {}
                 /\ idx = FirstCrossing
                 /\ \A i \in 1..(idx - 1) : i \in opened
                 /\ extractedFiles = [i \in 1..(idx - 1) |-> Files[i].name]
                 /\ totalSize = SumSizes(Files, idx - 1)

\* C7 witness: the total-size failure at the entry that crosses the ceiling
C7_Witness ==
    /\ routine = "extractZip"
    /\ xpc = "returned"
    /\ err # Nil
    /\ err[Len(err)] = "total uncompressed size too large"
    /\ idx = Len(Files)
    /\ totalSize + Files[idx].size > 10 * 1024 * 1024
    /\ totalSize <= 10 * 1024 * 1024

Succeeded == routine = "extractZip" /\ xpc = "returned" /\ err = Nil

Manifest ==
    /\ result.Files = [i \in 1..Len(Files) |-> Files[i].name]
    /\ result.Size = SumSizes(Files, Len(Files))
    /\ result.TempDir = tempDir
    /\ tempDir \in DOMAIN fs
    /\ fs[tempDir] = "dir"

Dest(i) == Join(tempDir, Files[i].name)

\* C10 as stated: when extractZip succeeds, Files is the sequence of entry
\* names, Size the sum of the declared sizes, the temporary directory
\* exists, and every file entry's content is stored at root/name.
C10_EveryEntryStored ==
    Succeeded =>
        /\ Manifest
        /\ \A i \in 1..Len(Files) :
              ~Files[i].dir => (Dest(i) \in DOMAIN fs /\ fs[Dest(i)] = Files[i].content)

\* C10, amended: when extractZip succeeds, Files is the sequence of entry
\* names in archive order, Size the sum of the declared sizes, the
\* temporary directory exists, every directory entry is a directory, and
\* the content stored at root/name is that of the last file entry with
\* that destination.
C10_RoundTrip ==
    Succeeded =>
        /\ Manifest
        /\ \A i \in 1..Len(Files) :
              /\ Dest(i) \in DOMAIN fs
              /\ Files[i].dir => fs[Dest(i)] = "dir"
              /\ (~Files[i].dir /\ \A j \in (i + 1)..Len(Files) : Dest(j) # Dest(i))
                    => fs[Dest(i)] = Files[i].content

\* C10 witness: a successful extraction of a directory and two files
C10_Witness ==
    /\ Succeeded
    /\ Len(Files) >= 2
    /\ \E i, j \in 1..Len(Files) : Files[i].dir /\ ~Files[j].dir

\* The name of an entry contains "../": a ".." element followed by a
\* separator (the name of a directory entry ends with one)
ContainsDotDotSlash(file) ==
    \E k \in 1..Len(file.name) :
        file.name[k] = ".." /\ (k < Len(file.name) \/ file.dir)

\* The name of an entry is an absolute path: it starts with a separator
IsAbsolute(file) == Len(file.name) > 0 /\ file.name[1] = ""

\* The name of entry i, joined to the temporary directory, does not lie
\* strictly inside it
Escapes(i) ==
    ~StrictlyUnder(Join(TempName(routine), Files[i].name), TempName(routine))

PathTraversalErrors == {"invalid file path detected", "invalid file path in zip"}

\* Entry i passes the size checks (extractZip alone has any)
WithinQuota(i) ==
    routine = "extractZip" =>
        /\ Files[i].size <= 1024 * 1024
        /\ totalSize + Files[i].size <= 10 * 1024 * 1024

\* C12 as stated: if any entry's name contains "../" or is an absolute
\* path, the call fails with a path-traversal error and the temporary
\* directory is removed.
C12_AnyDotDotOrAbsoluteFails ==
    (/\ xpc = "returned"
     /\ \E i \in 1..Len(Files) : ContainsDotDotSlash(Files[i]) \/ IsAbsolute(Files[i]))
    => /\ err # Nil
       /\ failure \in PathTraversalErrors
       /\ NothingLeft

\* C12, amended: if any entry's name, joined to the temporary directory
\* and cleaned, does not lie strictly inside it, the call fails and
\* returns no result, and the temporary directory is removed unless its
\* removal fails; the error is the path-traversal error when the call
\* fails at such an entry that is within the size limits, and only then:
\* a name with "../" or a leading separator that resolves inside the
\* directory is not rejected.
C12_EscapingNameFails ==
    xpc = "returned" =>
        /\ \A i \in 1..Len(Files) :
              Escapes(i) => /\ err # Nil
                            /\ NoResult
                            /\ (tempDir # <<>> /\ ~rmFailed) => NothingLeft
        /\ (err # Nil /\ idx >= 1) =>
              (failure \in PathTraversalErrors <=> (Escapes(idx) /\ WithinQuota(idx)))
        /\ (err # Nil /\ idx = 0) => failure \notin PathTraversalErrors

\* C12 witness: after an entry was written, an entry whose name climbs out
\* of the directory made the call fail with the path-traversal error, and
\* the directory is gone
C12_Witness ==
    /\ xpc = "returned"
    /\ err # Nil
    /\ failure \in PathTraversalErrors
    /\ idx >= 2
    /\ ContainsDotDotSlash(Files[idx])
    /\ created # {}
    /\ ~rmFailed
    /\ NothingLeft

\* The destination of entry i is the temporary directory itself
IsRoot(i) == Join(TempName(routine), Files[i].name) = TempName(routine)

\* C22 as stated: if the destination of an entry, joined and cleaned, is
\* the root itself, the call fails and the temporary directory is removed.
C22_RootRejectedAndRemoved ==
    (xpc = "returned" /\ \E i \in 1..Len(Files) : IsRoot(i))
    => /\ err # Nil
       /\ NothingLeft

\* C22, amended: if the destination of an entry is the root itself, the
\* call fails without a result, nothing is opened or created for that
\* entry, and the temporary directory is removed unless its removal
\* fails.
C22_RootRejected ==
    \A i \in 1..Len(Files) :
        IsRoot(i) =>
            /\ i \notin opened
            /\ CreatedFor(i) = {}
            /\ idx <= i
            /\ xpc = "returned" =>
                  /\ err # Nil
                  /\ NoResult
                  /\ (tempDir # <<>> /\ ~rmFailed) => NothingLeft

\* C22 witness: after an entry was written, the call failed at an entry
\* named "." or "d/..", and the directory is gone
C22_Witness ==
    /\ xpc = "returned"
    /\ err # Nil
    /\ idx >= 2
    /\ IsRoot(idx)
    /\ failure \in PathTraversalErrors
    /\ created # {}
    /\ ~rmFailed
    /\ NothingLeft

\* C23: when extractZip is given a well-formed archive without entries and
\* has its temporary directory (os.MkdirTemp and os.Chmod did not fail),
\* it succeeds: the result has an empty file list and size 0, and its
\* TempDir is the temporary directory, which exists and holds nothing.
C23_EmptyArchive ==
    (/\ routine = "extractZip"
     /\ zipData.valid
     /\ Files = <<>>
     /\ xpc = "returned")
    => \/ failure \in {"mkdirtemp", "chmod"}
       \/ /\ err = Nil
          /\ result.Files = <<>>
          /\ result.Size = 0
          /\ result.TempDir = <<"tmp", "shepherd-release-1">>
          /\ result.TempDir \in DOMAIN fs
          /\ fs[result.TempDir] = "dir"
          /\ \A q \in DOMAIN fs : ~StrictlyUnder(q, result.TempDir)
          /\ created = {}

\* C23 witness: extractZip has returned without error for an archive
\* without entries
C23_Witness ==
    /\ routine = "extractZip"
    /\ zipData.valid
    /\ Files = <<>>
    /\ xpc = "returned"
    /\ err = Nil
    /\ tempDir \in DOMAIN fs

\* C15: unzipToTempDir rejects what extractZip rejects for its size: every
\* entry it has accepted declares at most 1 GiB, and the declared sizes of
\* the entries up to it sum to at most 10 GiB.
C15_SameLimits ==
    routine = "unzipToTempDir" =>
        \A i \in 1..Len(Files) :
            i < idx => /\ Files[i].size <= 1024 * 1024
                       /\ SumSizes(Files, i) <= 10 * 1024 * 1024

(***************************************************************************)
(* Contexts.  A context is its cancellation ("none" for one that can never *)
(* be done, else "cancel" or "deadline", with the id of the caller whose   *)
(* cancelState it follows) and the values it carries.                      *)
(***************************************************************************)
NoValues == [k \in {} |-> Nil]

\* context.Background()
Background == [cancel |-> "none", id |-> 0, values |-> NoValues]

\* context.WithValue(ctx, k, v)
WithValue(ctx, k, v) ==
    [ctx EXCEPT !.values = [x \in DOMAIN @ \cup {k} |-> IF x = k THEN v ELSE @[x]]]

\* ctxlog.With(ctx, logger)
CtxlogWith(ctx, logger) == WithValue(ctx, "logger", logger)

\* ctxlog.From(ctx): the context's logger, the default logger if it has none
CtxlogFrom(ctx) ==
    IF "logger" \in DOMAIN ctx.values THEN ctx.values["logger"] ELSE "default"

\* ctx.Err(): Nil while the context is not done
CtxErr(ctx, cs) == IF ctx.cancel = "none" THEN Nil ELSE cs[ctx.id]

\* The contexts a caller with the given id may pass to Dispatch
CallerContexts(id) ==
    { Background,
      [cancel |-> "cancel", id |-> id,
       values |-> [k \in {"logger", "requestID"} |->
                      IF k = "logger" THEN "reqLogger" ELSE "req"]],
      [cancel |-> "deadline", id |-> id,
       values |-> [k \in {"requestID"} |-> "req"]] }

\* A fresh context to which every value of the caller's is copied
newBackgroundContext_CopyValues(ctx) ==
    CtxlogWith([Background EXCEPT !.values = ctx.values], CtxlogFrom(ctx))

\* A context built on the caller's: it keeps the caller's cancellation
newBackgroundContext_Inherit(ctx) == CtxlogWith(ctx, CtxlogFrom(ctx))

\* newBackgroundContext(ctx)
newBackgroundContext(ctx) == CtxlogWith(Background, CtxlogFrom(ctx))

(***************************************************************************)
(* Handlers.  What a handler passed to Dispatch does: return nil, return   *)
(* an error, panic with a string or with a runtime error, return ctx.Err() *)
(* of the context it is given, or block until that context is done.        *)
(***************************************************************************)
Handlers ==
    { [kind |-> "nil", value |-> Nil],
      [kind |-> "error", value |-> "test error"],
      [kind |-> "panic", value |-> "test panic"],
      [kind |-> "panic", value |-> "runtime error"],
      [kind |-> "ctx", value |-> Nil],
      [kind |-> "block", value |-> Nil] }

\* What handler(newCtx) ends with, given the state of the contexts
HandlerResult(task, cs) ==
    CASE task.handler.kind = "nil" -> [kind |-> "nil", value |-> Nil]
      [] task.handler.kind = "error" -> [kind |-> "error", value |-> task.handler.value]
      [] task.handler.kind = "panic" -> [kind |-> "panic", value |-> task.handler.value]
      [] OTHER -> IF CtxErr(task.ctx, cs) = Nil
                  THEN [kind |-> "nil", value |-> Nil]
                  ELSE [kind |-> "error", value |-> CtxErr(task.ctx, cs)]

\* Whether handler(newCtx) can end now
HandlerCanEnd(task, cs) ==
    task.handler.kind = "block" => CtxErr(task.ctx, cs) # Nil

LogEntry(logger, msg, key, value, stack) ==
    [logger |-> logger, level |-> "ERROR", msg |-> msg, key |-> key,
     value |-> value, stack |-> stack]

\* A goroutine that drops the error its handler returns
GoroutineEnd_DropError(task, res) ==
    IF res.kind = "panic"
    THEN [log |-> <<LogEntry(CtxlogFrom(task.ctx), "panic in async handler",
                             "recover", res.value, "debug.Stack")>>,
          crashed |-> FALSE]
    ELSE [log |-> <<>>, crashed |-> FALSE]

\* A goroutine that reports a panic as a returned error as well
GoroutineEnd_LogBoth(task, res) ==
    IF res.kind = "panic"
    THEN [log |-> <<LogEntry(CtxlogFrom(task.ctx), "panic in async handler",
                             "recover", res.value, "debug.Stack"),
                    LogEntry(CtxlogFrom(task.ctx), "error in async handler",
                             "error", res.value, Nil)>>,
          crashed |-> FALSE]
    ELSE IF res.kind = "error"
    THEN [log |-> <<LogEntry(CtxlogFrom(task.ctx), "error in async handler",
                             "error", res.value, Nil)>>,
          crashed |-> FALSE]
    ELSE [log |-> <<>>, crashed |-> FALSE]

\* A goroutine without the deferred recover: a panic ends the process
GoroutineEnd_NoRecover(task, res) ==
    IF res.kind = "panic" THEN [log |-> <<>>, crashed |-> TRUE]
    ELSE IF res.kind = "error"
    THEN [log |-> <<LogEntry(CtxlogFrom(task.ctx), "error in async handler",
                             "error", res.value, Nil)>>,
          crashed |-> FALSE]
    ELSE [log |-> <<>>, crashed |-> FALSE]

\* The goroutine of Dispatch once handler(newCtx) ended with res: the log
\* entries it writes and whether the process survives
GoroutineEnd(task, res) ==
    IF res.kind = "panic"
    THEN [log |-> <<LogEntry(CtxlogFrom(task.ctx), "panic in async handler",
                             "recover", res.value, "debug.Stack")>>,
          crashed |-> FALSE]
    ELSE IF res.kind = "error"
    THEN [log |-> <<LogEntry(CtxlogFrom(task.ctx), "error in async handler",
                             "error", res.value, Nil)>>,
          crashed |-> FALSE]
    ELSE [log |-> <<>>, crashed |-> FALSE]

\* A Dispatch that calls the handler itself: the caller waits for it, and a
\* panic of the handler is the caller's
Dispatch_Inline(ctx, handler) ==
    [pc |-> IF handler.kind = "block" THEN "running" ELSE "done",
     handler |-> handler,
     callerCtx |-> ctx,
     ctx |-> newBackgroundContext(ctx),
     returned |-> handler.kind \notin {"block", "panic"},
     callerPanic |-> handler.kind = "panic",
     sawDone |-> FALSE,
     log |-> IF handler.kind = "error"
             THEN <<LogEntry(CtxlogFrom(ctx), "error in async handler",
                             "error", handler.value, Nil)>>
             ELSE <<>>]

\* Dispatch(ctx, handler): the task it leaves behind when it returns
Dispatch(ctx, handler) ==
    [pc |-> "spawned",
     handler |-> handler,
     callerCtx |-> ctx,
     ctx |-> newBackgroundContext(ctx),
     returned |-> TRUE,
     callerPanic |-> FALSE,
     sawDone |-> FALSE,
     log |-> <<>>]

\* Number of Dispatch calls
MaxTasks == 2

Put(f, k, v) == [x \in DOMAIN f \cup {k} |-> IF x = k THEN v ELSE f[x]]

\* A caller calls Dispatch with a context that may already be cancelled
DispatchCall ==
    /\ procAlive
    /\ Len(tasks) < MaxTasks
    /\ LET t == Len(tasks) + 1 IN
       \E ctx \in CallerContexts(t), h \in Handlers, pre \in {Nil, "canceled"} :
          /\ ctx.cancel = "none" => pre = Nil
          /\ tasks' = Append(tasks, Dispatch(ctx, h))
          /\ cancelState' = Append(cancelState, pre)
    /\ UNCHANGED procAlive
    /\ UNCHANGED <<exVars, wVars, pVars, mVars, sVars, gVars>>

\* The caller's context is cancelled
CancelCaller(t) ==
    /\ procAlive
    /\ tasks[t].callerCtx.cancel # "none"
    /\ cancelState[t] = Nil
    /\ cancelState' = [cancelState EXCEPT ![t] = "canceled"]
    /\ UNCHANGED <<tasks, procAlive>>
    /\ UNCHANGED <<exVars, wVars, pVars, mVars, sVars, gVars>>

\* The caller's context passes its deadline
ExpireCaller(t) ==
    /\ procAlive
    /\ tasks[t].callerCtx.cancel = "deadline"
    /\ cancelState[t] = Nil
    /\ cancelState' = [cancelState EXCEPT ![t] = "deadline exceeded"]
    /\ UNCHANGED <<tasks, procAlive>>
    /\ UNCHANGED <<exVars, wVars, pVars, mVars, sVars, gVars>>

\* The goroutine is scheduled and calls handler(newCtx)
HandlerStart(t) ==
    /\ procAlive
    /\ tasks[t].pc = "spawned"
    /\ tasks' = [tasks EXCEPT ![t].pc = "running",
                              ![t].sawDone = CtxErr(tasks[t].ctx, cancelState) # Nil]
    /\ UNCHANGED <<cancelState, procAlive>>
    /\ UNCHANGED <<exVars, wVars, pVars, mVars, sVars, gVars>>

\* A goroutine that starts over when its handler returned an error
HandlerEnd_Retry(t) ==
    /\ procAlive
    /\ tasks[t].pc = "running"
    /\ HandlerCanEnd(tasks[t], cancelState)
    /\ LET res == HandlerResult(tasks[t], cancelState)
           out == GoroutineEnd(tasks[t], res)
       IN /\ tasks' = [tasks EXCEPT
                          ![t].pc = IF res.kind = "error" THEN "spawned" ELSE "done",
                          ![t].log = @ \o out.log]
          /\ procAlive' = ~out.crashed
    /\ UNCHANGED cancelState
    /\ UNCHANGED <<exVars, wVars, pVars, mVars, sVars, gVars>>

\* handler(newCtx) ends; the goroutine logs the outcome and ends
HandlerEnd(t) ==
    /\ procAlive
    /\ tasks[t].pc = "running"
    /\ HandlerCanEnd(tasks[t], cancelState)
    /\ LET out == GoroutineEnd(tasks[t], HandlerResult(tasks[t], cancelState)) IN
          /\ tasks' = [tasks EXCEPT
                          ![t].pc = "done",
                          ![t].sawDone = @ \/ CtxErr(tasks[t].ctx, cancelState) # Nil,
                          ![t].log = @ \o out.log]
          /\ procAlive' = ~out.crashed
    /\ UNCHANGED cancelState
    /\ UNCHANGED <<exVars, wVars, pVars, mVars, sVars, gVars>>

InitDispatch ==
    /\ DispatchIdle
    /\ WebhookIdle(FALSE)
    /\ ProcessorIdle(NoEvent)
    /\ ModelIdle
    /\ ServeIdle
    /\ DetectorIdle
    /\ ExtractIdle("extractZip", [valid |-> FALSE, files |-> <<>>])

NextDispatch ==
    \/ DispatchCall
    \/ \E t \in DOMAIN tasks : CancelCaller(t)
    \/ \E t \in DOMAIN tasks : ExpireCaller(t)
    \/ \E t \in DOMAIN tasks : HandlerStart(t)
    \/ \E t \in DOMAIN tasks : HandlerEnd(t)

SpecDispatch == InitDispatch /\ [][NextDispatch]_vars

\* Number of Dispatch calls followed under fair scheduling
MaxFairTasks == 1

NextDispatchFair ==
    \/ (Len(tasks) < MaxFairTasks /\ DispatchCall)
    \/ \E t \in DOMAIN tasks : CancelCaller(t)
    \/ \E t \in DOMAIN tasks : ExpireCaller(t)
    \/ \E t \in DOMAIN tasks : HandlerStart(t)
    \/ \E t \in DOMAIN tasks : HandlerEnd(t)

\* The Go scheduler runs every goroutine that can run: a spawned goroutine
\* starts, and one whose handler can end reaches its end
FairDispatch ==
    \A t \in 1..MaxFairTasks :
        /\ WF_vars(t \in DOMAIN tasks /\ HandlerStart(t))
        /\ WF_vars(t \in DOMAIN tasks /\ HandlerEnd(t))

SpecDispatchFair == InitDispatch /\ [][NextDispatchFair]_vars /\ FairDispatch

(***************************************************************************)
(* Properties of Dispatch.                                                 *)
(***************************************************************************)
PanicEntries(t) ==
    { i \in 1..Len(tasks[t].log) : tasks[t].log[i].msg = "panic in async handler" }

\* C3: a handler's panic never reaches the caller of Dispatch nor ends
\* the process, and once the goroutine has ended its task's log holds
\* exactly one "panic in async handler" entry, an error entry with the
\* panic value and a stack trace; before that it holds none.
C3_PanicContained ==
    /\ procAlive
    /\ \A t \in DOMAIN tasks :
          /\ ~tasks[t].callerPanic
          /\ tasks[t].handler.kind = "panic" =>
                /\ tasks[t].returned
                /\ tasks[t].pc # "done" => PanicEntries(t) = {}
                /\ tasks[t].pc = "done" =>
                      /\ Cardinality(PanicEntries(t)) = 1
                      /\ Len(tasks[t].log) = 1
                      /\ tasks[t].log[1].level = "ERROR"
                      /\ tasks[t].log[1].key = "recover"
                      /\ tasks[t].log[1].value = tasks[t].handler.value
                      /\ tasks[t].log[1].stack = "debug.Stack"
          /\ tasks[t].handler.kind # "panic" => PanicEntries(t) = {}

\* C3 witness: a handler has panicked and its goroutine has ended, while
\* another dispatched task is still to run
C3_Witness ==
    /\ Len(tasks) >= 2
    /\ tasks[1].handler.kind = "panic"
    /\ tasks[1].pc = "done"
    /\ tasks[2].pc = "spawned"
    /\ procAlive

\* C4: the context given to a handler is never done and has neither
\* cancellation nor deadline, whatever happens to the caller's context: no
\* handler ever sees it done, and a handler that returns its context's
\* error returns nil and so logs nothing.
C4_ContextDetached ==
    \A t \in DOMAIN tasks :
        /\ tasks[t].ctx.cancel = "none"
        /\ ~tasks[t].sawDone
        /\ (tasks[t].handler.kind = "ctx" /\ tasks[t].pc = "done") => tasks[t].log = <<>>

\* C4 witness: the caller's context was cancelled before one task was
\* dispatched and expired while another ran; both handlers have completed
C4_Witness ==
    /\ Len(tasks) >= 2
    /\ \E t, u \in DOMAIN tasks :
          /\ cancelState[t] = "canceled"
          /\ cancelState[u] = "deadline exceeded"
          /\ tasks[t].handler.kind = "ctx"
          /\ tasks[t].pc = "done"
          /\ tasks[u].pc = "done"

ErrorEntries(t) ==
    { i \in 1..Len(tasks[t].log) : tasks[t].log[i].msg = "error in async handler" }

\* C27: a task's log holds at most one entry; a handler that panics leaves
\* no "error in async handler" entry, one that returns an error no "panic
\* in async handler" entry, and any other handler no entry at all.
C27_OneOutcome ==
    \A t \in DOMAIN tasks :
        /\ Len(tasks[t].log) <= 1
        /\ tasks[t].handler.kind = "panic" => ErrorEntries(t) = {}
        /\ tasks[t].handler.kind = "error" => PanicEntries(t) = {}
        /\ tasks[t].handler.kind \notin {"panic", "error"} => tasks[t].log = <<>>

\* C27 witness: a handler that panicked and one that returned nil have both
\* ended, the first with its one entry, the second with none
C27_Witness ==
    \E t, u \in DOMAIN tasks :
        /\ tasks[t].pc = "done" /\ tasks[t].handler.kind = "panic"
        /\ Cardinality(PanicEntries(t)) = 1
        /\ tasks[u].pc = "done" /\ tasks[u].handler.kind = "nil"
        /\ tasks[u].log = <<>>

\* A handler that ends: every kind but the one that blocks for ever
Ends(t) == t \in DOMAIN tasks /\ tasks[t].handler.kind # "block"

\* C26: under fair scheduling every dispatched task's handler is invoked,
\* and a handler that ends (with nil, an error or a panic) is followed by
\* the end of its goroutine; a task only moves from spawned to running to
\* done: it is started once, never started again and stays ended.
C26_RunsOnceAndEnds ==
    /\ \A t \in 1..MaxFairTasks :
          (t \in DOMAIN tasks) ~> (t \in DOMAIN tasks /\ tasks[t].pc \in {"running", "done"})
    /\ \A t \in 1..MaxFairTasks :
          Ends(t) ~> (Ends(t) /\ tasks[t].pc = "done")
    /\ [][\A t \in DOMAIN tasks :
             /\ t \in DOMAIN tasks'
             /\ tasks[t].pc = "running" => tasks'[t].pc \in {"running", "done"}
             /\ tasks[t].pc = "done" => tasks'[t].pc = "done"
             /\ tasks'[t].ctx = tasks[t].ctx]_vars

\* C26 witness: a handler that panicked has ended after its caller's
\* context was cancelled, and the process is alive
C26_Witness ==
    \E t \in DOMAIN tasks :
        /\ tasks[t].pc = "done"
        /\ tasks[t].handler.kind = "panic"
        /\ Len(tasks[t].log) = 1
        /\ cancelState[t] = "canceled"
        /\ procAlive

\* C11: a handler that returns a non-nil error without panicking leaves,
\* once its goroutine has ended, exactly one log entry, "error in async
\* handler" at error level carrying that error and no stack; before that
\* there is none.  Dispatch has returned to its caller without a panic,
\* and the process is alive: the goroutine ended normally.
C11_ErrorLogged ==
    \A t \in DOMAIN tasks :
        tasks[t].handler.kind = "error" =>
            /\ tasks[t].returned
            /\ ~tasks[t].callerPanic
            /\ tasks[t].pc # "done" => tasks[t].log = <<>>
            /\ tasks[t].pc = "done" =>
                  /\ procAlive
                  /\ Len(tasks[t].log) = 1
                  /\ tasks[t].log[1].msg = "error in async handler"
                  /\ tasks[t].log[1].level = "ERROR"
                  /\ tasks[t].log[1].key = "error"
                  /\ tasks[t].log[1].value = tasks[t].handler.value
                  /\ tasks[t].log[1].stack = Nil

\* C11 witness: a handler has returned an error and its goroutine has
\* ended; a task dispatched by the same caller is still to run
C11_Witness ==
    /\ Len(tasks) >= 2
    /\ tasks[1].handler.kind = "error"
    /\ tasks[1].handler.value = "test error"
    /\ tasks[1].pc = "done"
    /\ tasks[2].pc = "spawned"
    /\ procAlive

\* C14: the context given to a handler carries one value, the logger, and
\* it is the logger of the caller's context (the default logger when the
\* caller's context has none); the caller's request id is not in it.
C14_OnlyLogger ==
    \A t \in DOMAIN tasks :
        /\ DOMAIN tasks[t].ctx.values = {"logger"}
        /\ tasks[t].ctx.values["logger"] =
              (IF "logger" \in DOMAIN tasks[t].callerCtx.values
               THEN tasks[t].callerCtx.values["logger"]
               ELSE "default")

\* C14 witness: a handler runs for a caller whose context holds a logger
\* and a request id, another for a caller whose context holds only a
\* request id
C14_Witness ==
    \E t, u \in DOMAIN tasks :
        /\ tasks[t].pc = "running"
        /\ DOMAIN tasks[t].callerCtx.values = {"logger", "requestID"}
        /\ tasks[t].ctx.values["logger"] = "reqLogger"
        /\ tasks[u].pc = "running"
        /\ DOMAIN tasks[u].callerCtx.values = {"requestID"}

\* C5: in every state every Dispatch call made so far has returned to its
\* caller, whether its handler has not begun, is running, blocks for ever
\* or has ended.
C5_NonBlocking ==
    \A t \in DOMAIN tasks :
        /\ tasks[t].returned
        /\ ~tasks[t].callerPanic

\* C5 witness: Dispatch has returned twice; one handler has not begun and
\* one that never terminates is running
C5_Witness ==
    /\ Len(tasks) >= 2
    /\ \E t, u \in DOMAIN tasks :
          /\ tasks[t].returned /\ tasks[t].pc = "spawned"
          /\ tasks[u].returned /\ tasks[u].pc = "running"
          /\ tasks[u].handler.kind = "block"

(***************************************************************************)
(* The webhook handler.  A request carries its body, the X-Hub-Signature-  *)
(* 256 header and the X-GitHub-Event header.  A body is a record of        *)
(* whether it is valid JSON and of its "action" member.  A header value   *)
(* is a sequence, the empty string being <<>>; the hex HMAC-SHA256 of a    *)
(* payload under a key is <<key, payload>>, so that two MACs are equal     *)
(* exactly when key and payload are.                                       *)
(***************************************************************************)
Secret == "test-secret"

HmacSha256Hex(key, payload) == <<key, payload>>

\* A signature header: the hex MAC with or without the "sha256=" prefix
SignatureHeader(prefix, key, payload) ==
    IF prefix THEN <<"sha256=">> \o HmacSha256Hex(key, payload)
    ELSE HmacSha256Hex(key, payload)

\* strings.TrimPrefix(s, prefix)
TrimPrefix(s, prefix) ==
    IF Len(s) > 0 /\ s[1] = prefix THEN Tail(s) ELSE s

Bodies ==
    { [json |-> FALSE, action |-> ""],
      [json |-> TRUE, action |-> ""],
      [json |-> TRUE, action |-> "opened"],
      [json |-> TRUE, action |-> "closed"],
      [json |-> TRUE, action |-> "released"] }

EventTypes == {"pull_request", "release", "push", "bogus"}

Request(readable, body, signature, eventType) ==
    [readable |-> readable, body |-> body, signature |-> signature,
     eventType |-> eventType]

\* The requests a sender can make: correctly signed ones of every body and
\* event type, with and without the prefix; ones with a missing signature,
\* one made with another key and one made for another body; and ones whose
\* body cannot be read to its end
Requests ==
    { Request(TRUE, b, SignatureHeader(p, Secret, b), ty) :
          b \in Bodies, p \in BOOLEAN, ty \in EventTypes }
    \cup
    UNION { { Request(TRUE, b, <<>>, "pull_request"),
              Request(TRUE, b, SignatureHeader(TRUE, "other-secret", b), "pull_request"),
              Request(TRUE, b, SignatureHeader(TRUE, Secret, [json |-> TRUE, action |-> "closed"]),
                      "pull_request") } :
            b \in {x \in Bodies : x.action \in {"opened", "released"}} }
    \cup
    { Request(FALSE, [json |-> TRUE, action |-> "opened"], sg, "pull_request") :
          sg \in { <<>>, SignatureHeader(TRUE, Secret, [json |-> TRUE, action |-> "opened"]) } }

\* A verifySignature that lets a request without the header through
verifySignature_AcceptMissing(payload, signature) ==
    IF signature = <<>> THEN TRUE
    ELSE TrimPrefix(signature, "sha256=") = HmacSha256Hex(Secret, payload)

\* h.verifySignature(payload, signature)
verifySignature(payload, signature) ==
    IF signature = <<>> THEN FALSE
    ELSE TrimPrefix(signature, "sha256=") = HmacSha256Hex(Secret, payload)

\* github.ParseWebHook(eventType, body): an error for an event type it does
\* not know or a body that is not JSON, else the typed payload
ParseWebHook(eventType, body) ==
    IF eventType \notin {"pull_request", "release", "push"} \/ ~body.json
    THEN [err |-> "parse error", type |-> Nil, action |-> ""]
    ELSE [err |-> Nil,
          type |-> CASE eventType = "pull_request" -> "PullRequestEvent"
                     [] eventType = "release" -> "ReleaseEvent"
                     [] OTHER -> "PushEvent",
          action |-> body.action]

\* The model.WebhookEvent Handle builds from the header and the payload
NewWebhookEvent(eventType, payload) ==
    IF payload.type \in {"PullRequestEvent", "ReleaseEvent"}
    THEN [Type |-> eventType, Action |-> payload.action]
    ELSE [Type |-> "unknown", Action |-> ""]

\* webhookUseCase.ProcessEvent: it logs the event and returns nil
ProcessEvent(event) == Nil

\* r.Context(): a context net/http cancels when the handler returns; no
\* middleware of the server stores a logger in it
RequestContext(r) ==
    [cancel |-> "cancel", id |-> r, values |-> NoValues]

\* The handler built with a package detector (det), after ProcessEvent has
\* succeeded: for a pull_request "opened" event it hands DetectPackageUpdate
\* (work) to Dispatch.  The tasks started.
DispatchPackageDetection(ctx, event, det, work) ==
    IF det /\ event.Type = "pull_request" /\ event.Action = "opened"
    THEN <<Dispatch(ctx, work)>>
    ELSE <<>>

\* What the sender gets once the event was processed.  A panic that reaches
\* Handle is caught by middleware.Recoverer, which answers 500; a call that
\* never returns leaves the request unanswered (status 0).
SuccessStatus(started) ==
    IF \E i \in DOMAIN started : started[i].callerPanic THEN 500
    ELSE IF \E i \in DOMAIN started : ~started[i].returned THEN 0
    ELSE 200

Answer(status, calls, started) ==
    [status |-> status, calls |-> calls, started |-> started]

\* WebhookHandler.Handle: the status written, the events ProcessEvent was
\* invoked with and the tasks left behind
Handle(req, ctx, det, work) ==
    IF ~req.readable THEN Answer(400, <<>>, <<>>)
    ELSE IF ~verifySignature(req.body, req.signature)
    THEN Answer(401, <<>>, <<>>)
    ELSE LET payload == ParseWebHook(req.eventType, req.body) IN
         IF payload.err # Nil THEN Answer(400, <<>>, <<>>)
         ELSE LET event == NewWebhookEvent(req.eventType, payload) IN
              IF ProcessEvent(event) # Nil
              THEN Answer(500, <<event>>, <<>>)
              ELSE LET started == DispatchPackageDetection(ctx, event, det, work) IN
                   Answer(SuccessStatus(started), <<event>>, started)

\* Number of requests
MaxRequests == 2

\* A request arrives and Handle answers it; its context is cancelled when
\* Handle has returned
WebhookHandle ==
    /\ procAlive
    /\ Len(reqs) < MaxRequests
    /\ LET r == Len(reqs) + 1 IN
       \E req \in Requests, work \in Handlers :
          LET h == Handle(req, RequestContext(r), detector, work) IN
             /\ reqs' = Append(reqs, req)
             /\ resp' = Append(resp, h.status)
             /\ ucCalls' = ucCalls \o [i \in DOMAIN h.calls |->
                                          [req |-> r, event |-> h.calls[i]]]
             /\ tasks' = tasks \o h.started
             /\ cancelState' = Append(cancelState, "canceled")
    /\ UNCHANGED <<detector, procAlive>>
    /\ UNCHANGED <<exVars, pVars, mVars, sVars, gVars>>

InitWebhook ==
    /\ \E d \in BOOLEAN : WebhookIdle(d)
    /\ ProcessorIdle(NoEvent)
    /\ ModelIdle
    /\ ServeIdle
    /\ DetectorIdle
    /\ DispatchIdle
    /\ ExtractIdle("extractZip", [valid |-> FALSE, files |-> <<>>])

NextWebhook ==
    \/ WebhookHandle
    \/ \E t \in DOMAIN tasks : HandlerStart(t)
    \/ \E t \in DOMAIN tasks : HandlerEnd(t)

SpecWebhook == InitWebhook /\ [][NextWebhook]_vars

(***************************************************************************)
(* Properties of the webhook handler                                       *)
(***************************************************************************)
\* The pull_request "opened" requests that carry the MAC of their body
PROpened(req) ==
    /\ req.readable
    /\ req.signature \in { <<"test-secret", req.body>>,
                           <<"sha256=", "test-secret", req.body>> }
    /\ req.eventType = "pull_request"
    /\ req.body.json
    /\ req.body.action = "opened"

\* The tasks dispatched by request r
TasksOf(r) == {t \in DOMAIN tasks : tasks[t].callerCtx.id = r}

C16_Verified200 ==
    \A r \in DOMAIN reqs :
        (/\ reqs[r].readable
         /\ reqs[r].signature \in { <<"test-secret", reqs[r].body>>,
                                    <<"sha256=", "test-secret", reqs[r].body>> })
        => resp[r] = 200

\* Whether the signature header of a request is the MAC of its body under
\* the configured secret, with or without the prefix
SignatureMatches(req) ==
    req.signature \in { <<"test-secret", req.body>>,
                        <<"sha256=", "test-secret", req.body>> }

\* C9 as stated: every request with a missing or non-matching signature is
\* answered 401, and ProcessEvent is invoked only for matching requests
C9_Always401 ==
    /\ \A c \in DOMAIN ucCalls : SignatureMatches(reqs[ucCalls[c].req])
    /\ \A r \in DOMAIN reqs : ~SignatureMatches(reqs[r]) => resp[r] = 401

\* C9: ProcessEvent is invoked only for requests whose signature matches; a
\* request whose body was read and whose signature is missing or does not
\* match is answered 401 and ProcessEvent is not invoked for it (a request
\* whose body cannot be read is answered 400 before the signature is looked
\* at, and ProcessEvent is not invoked for it either).
C9_SignatureGate ==
    /\ \A c \in DOMAIN ucCalls :
          /\ reqs[ucCalls[c].req].readable
          /\ SignatureMatches(reqs[ucCalls[c].req])
    /\ \A r \in DOMAIN reqs :
          ~SignatureMatches(reqs[r]) =>
              /\ resp[r] = (IF reqs[r].readable THEN 401 ELSE 400)
              /\ \A c \in DOMAIN ucCalls : ucCalls[c].req # r

\* C9 witness: a request without the header and one signed with another key
\* were answered 401, and one with a matching signature reached ProcessEvent
C9_Witness ==
    /\ Len(reqs) = 2
    /\ \E r \in DOMAIN reqs :
          /\ reqs[r].readable
          /\ ~SignatureMatches(reqs[r])
          /\ resp[r] = 401
    /\ \E c \in DOMAIN ucCalls : SignatureMatches(reqs[ucCalls[c].req])

(***************************************************************************)
(* WebhookEvent.IsSupportedEvent, called on events of every type and       *)
(* action.                                                                 *)
(***************************************************************************)
WebhookEventTypes == {"pull_request", "release", "push", "unknown", "issues"}

WebhookActions == {"", "opened", "closed", "synchronize", "released", "created"}

WebhookEvents == [Type : WebhookEventTypes, Action : WebhookActions]

\* e.IsSupportedEvent()
IsSupportedEvent(e) ==
    CASE e.Type = "pull_request" -> e.Action = "opened"
      [] e.Type = "release" -> e.Action = "released"
      [] OTHER -> FALSE

\* Number of calls of IsSupportedEvent
MaxChecked == 2

\* IsSupportedEvent is called on an event
CheckSupported ==
    /\ Len(checked) < MaxChecked
    /\ \E e \in WebhookEvents :
          checked' = Append(checked, [event |-> e, supported |-> IsSupportedEvent(e)])
    /\ UNCHANGED <<exVars, dVars, wVars, pVars, sVars, gVars>>

InitSupported ==
    /\ ModelIdle
    /\ ServeIdle
    /\ DetectorIdle
    /\ DispatchIdle
    /\ WebhookIdle(FALSE)
    /\ ProcessorIdle(NoEvent)
    /\ ExtractIdle("extractZip", [valid |-> FALSE, files |-> <<>>])

NextSupported == CheckSupported

SpecSupported == InitSupported /\ [][NextSupported]_vars

\* C20: IsSupportedEvent returns true exactly for pull_request "opened",
\* release "released" and push events of any action, the empty one
\* included, and false for every other type and action.
C20_SupportedEvents ==
    \A c \in DOMAIN checked :
        checked[c].supported =
            (\/ checked[c].event.Type = "pull_request" /\ checked[c].event.Action = "opened"
             \/ checked[c].event.Type = "release" /\ checked[c].event.Action = "released"
             \/ checked[c].event.Type = "push")

(***************************************************************************)
(* EventProcessor.ProcessEvent with the use case of NewRelease and         *)
(* NewSourceCode behind it: ProcessRelease delegates to ProcessSource,     *)
(* which downloads the zipball and extracts it with extractZip.            *)
(***************************************************************************)
ReleasePayloads ==
    { Payload("ReleaseEvent", a, TRUE, "o", "r", TRUE, "abc123", FALSE, "") :
          a \in {Nil, "released", "created"} }
    \cup
    { Payload("ReleaseEvent", "released", FALSE, "", "", TRUE, "abc123", FALSE, ""),
      Payload("ReleaseEvent", "released", TRUE, "o", "r", FALSE, "", FALSE, ""),
      Payload("ReleaseEvent", "released", TRUE, "", "r", TRUE, "abc123", FALSE, ""),
      Payload("ReleaseEvent", "released", TRUE, "o", "r", TRUE, "", FALSE, ""),
      Payload("ReleaseEvent", "created", FALSE, "", "", FALSE, "", FALSE, "") }

PushPayloads ==
    { Payload("PushEvent", Nil, TRUE, "o", "r", FALSE, "", TRUE, "abc123"),
      Payload("PushEvent", Nil, FALSE, "", "", FALSE, "", TRUE, "abc123"),
      Payload("PushEvent", Nil, TRUE, "o", "r", FALSE, "", FALSE, ""),
      Payload("PushEvent", Nil, TRUE, "", "r", FALSE, "", TRUE, "abc123") }

\* The calls of ProcessEvent: an event type with any payload
Events ==
    [eventType : {"release", "push", "issues"},
     payload : ReleasePayloads \cup PushPayloads \cup {NoPayload}]

\* The archives DownloadZipball may return
ZipballArchives ==
    { [valid |-> FALSE, files |-> <<>>] }
    \cup { [valid |-> TRUE, files |-> t] : t \in Tails }

\* What the processor does with an event before any use case runs: the
\* use case to call (Nil for none) with its argument, or the error returned
Routed(uc, info, e) == [uc |-> uc, info |-> info, err |-> e]

\* EventProcessor.extractReleaseInfo(event)
extractReleaseInfo(event) ==
    IF ~event.hasRepo
    THEN Routed(Nil, Nil, NewError("missing repository information in release event"))
    ELSE IF ~event.hasRelease
    THEN Routed(Nil, Nil, NewError("missing release information in release event"))
    ELSE IF event.owner = "" \/ event.name = "" \/ event.target = ""
    THEN Routed(Nil, Nil, NewError("missing required fields"))
    ELSE Routed("release",
                [Owner |-> event.owner, Repo |-> event.name, CommitSHA |-> event.target],
                Nil)

\* EventProcessor.extractPushInfo(event)
extractPushInfo(event) ==
    LET commitSHA == IF event.hasHead THEN event.headID ELSE "" IN
    IF ~event.hasRepo
    THEN Routed(Nil, Nil, NewError("missing repository information in push event"))
    ELSE IF event.owner = "" \/ event.name = "" \/ commitSHA = ""
    THEN Routed(Nil, Nil, NewError("missing required fields"))
    ELSE Routed("source",
                [Owner |-> event.owner, Repo |-> event.name,
                 CommitSHA |-> commitSHA, EventType |-> "push"],
                Nil)

\* A processReleaseEvent that takes a release event of any action
processReleaseEvent_AnyAction(payload) ==
    IF payload.kind # "ReleaseEvent" THEN Routed(Nil, Nil, Nil)
    ELSE extractReleaseInfo(payload)

\* EventProcessor.processReleaseEvent, up to the call of the use case
processReleaseEvent(payload) ==
    IF payload.kind # "ReleaseEvent" THEN Routed(Nil, Nil, Nil)
    ELSE IF payload.action # "released" THEN Routed(Nil, Nil, Nil)
    ELSE extractReleaseInfo(payload)

\* EventProcessor.processPushEvent, up to the call of the use case
processPushEvent(payload) ==
    IF payload.kind # "PushEvent" THEN Routed(Nil, Nil, Nil)
    ELSE extractPushInfo(payload)

\* EventProcessor.ProcessEvent, up to the call of the use case
EventProcessorProcessEvent(eventType, payload) ==
    CASE eventType = "release" -> processReleaseEvent(payload)
      [] eventType = "push" -> processPushEvent(payload)
      [] OTHER -> Routed(Nil, Nil, Nil)

\* eventUseCase.ProcessRelease(info): the SourceInfo it hands to ProcessSource
ProcessRelease(info) ==
    [Owner |-> info.Owner, Repo |-> info.Repo, CommitSHA |-> info.CommitSHA,
     EventType |-> "release"]

\* A DownloadZipball call and the error it returned
DownloadCall(info, dlErr) ==
    [owner |-> info.Owner, repo |-> info.Repo, ref |-> info.CommitSHA, err |-> dlErr]

\* A ProcessSource that tries the download a second time when it failed
ProcessSourceDownload_Retry(info, dlErr) ==
    [calls |-> IF dlErr = Nil THEN <<DownloadCall(info, dlErr)>>
               ELSE <<DownloadCall(info, dlErr), DownloadCall(info, dlErr)>>,
     err |-> IF dlErr = Nil THEN Nil ELSE Wrap("failed to download zipball", dlErr)]

\* eventUseCase.ProcessSource up to the extraction: the DownloadZipball
\* calls made and the error returned, if any
ProcessSourceDownload(info, dlErr) ==
    [calls |-> <<DownloadCall(info, dlErr)>>,
     err |-> IF dlErr = Nil THEN Nil ELSE Wrap("failed to download zipball", dlErr)]

\* eventUseCase.ProcessSource after extractZip returned (res, e)
ProcessSourceReturn(res, e) ==
    IF e # Nil
    THEN UseCaseOutcome(TRUE, FALSE, <<>>, Wrap("failed to extract zip", e))
    ELSE UseCaseOutcome(TRUE, TRUE, res.TempDir, Nil)

\* A processor that leaves the directory to its use case
CallerCleanup_Skip(out, fsv, fails) == fsv

\* The function processReleaseEvent and processPushEvent defer once the use
\* case has returned without error
CallerCleanup(out, fsv, fails) ==
    IF out.hasResult /\ out.TempDir # <<>>
    THEN TryRemoveAll(fsv, out.TempDir, fails)
    ELSE fsv

\* ProcessEvent is called: it returns at once, or calls the use case, which
\* downloads the zipball
ProcessEventStart ==
    /\ ppc = "start"
    /\ LET rt == EventProcessorProcessEvent(pEvent.eventType, pEvent.payload) IN
       IF rt.uc = Nil
       THEN /\ ppc' = "returned"
            /\ pErr' = rt.err
            /\ UNCHANGED <<releaseCalls, sourceCalls, downloads, ucOut>>
       ELSE /\ releaseCalls' = IF rt.uc = "release"
                               THEN Append(releaseCalls, rt.info) ELSE releaseCalls
            /\ sourceCalls' = IF rt.uc = "source"
                              THEN Append(sourceCalls, rt.info) ELSE sourceCalls
            /\ \E dlFails \in BOOLEAN :
                 LET dlErr == IF dlFails THEN NewError("download error") ELSE Nil
                     info == IF rt.uc = "release" THEN ProcessRelease(rt.info)
                             ELSE rt.info
                     dl == ProcessSourceDownload(info, dlErr)
                 IN  /\ downloads' = downloads \o dl.calls
                     /\ IF dl.err # Nil
                        THEN /\ ucOut' = UseCaseOutcome(TRUE, FALSE, <<>>, dl.err)
                             /\ pErr' = dl.err
                             /\ ppc' = "returned"
                        ELSE /\ ppc' = "usecase"
                             /\ UNCHANGED <<ucOut, pErr>>
    /\ UNCHANGED <<pEvent, pRmFailed>>
    /\ UNCHANGED <<exVars, dVars, wVars, mVars, sVars, gVars>>

\* extractZip has returned: ProcessSource returns, and ProcessEvent returns
\* the error or cleans up and returns nil
ProcessEventFinish ==
    /\ ppc = "usecase"
    /\ xpc = "returned"
    /\ LET out == ProcessSourceReturn(result, err) IN
          /\ ucOut' = out
          /\ ppc' = "returned"
          /\ IF out.err # Nil
             THEN /\ pErr' = out.err
                  /\ UNCHANGED <<fs, pRmFailed>>
             ELSE /\ pErr' = Nil
                  /\ \E fails \in BOOLEAN :
                        /\ fs' = CallerCleanup(out, fs, fails)
                        /\ pRmFailed' = fails
    /\ UNCHANGED <<routine, zipData, xpc, idx, tempDir, totalSize, extractedFiles,
                   result, err, failure, opened, created, rmFailed, xlog>>
    /\ UNCHANGED <<pEvent, releaseCalls, sourceCalls, downloads>>
    /\ UNCHANGED <<dVars, wVars, mVars, sVars, gVars>>

InitProcessor ==
    /\ \E e \in Events : ProcessorIdle(e)
    /\ \E z \in ZipballArchives : ExtractIdle("extractZip", z)
    /\ DispatchIdle
    /\ WebhookIdle(FALSE)
    /\ ModelIdle
    /\ ServeIdle
    /\ DetectorIdle

NextProcessor ==
    \/ ProcessEventStart
    \/ (ppc = "usecase" /\ ExtractStart)
    \/ (ppc = "usecase" /\ ExtractEntry)
    \/ (ppc = "usecase" /\ ExtractFinish)
    \/ ProcessEventFinish

SpecProcessor == InitProcessor /\ [][NextProcessor]_vars

(***************************************************************************)
(* Properties of the event processor and its use case                      *)
(***************************************************************************)
\* ProcessEvent has returned after its use case gave it a result with a
\* non-empty TempDir
ReturnedWithTempDir ==
    /\ ppc = "returned"
    /\ pEvent.eventType \in {"release", "push"}
    /\ ucOut.returned
    /\ ucOut.hasResult
    /\ ucOut.TempDir # <<>>

\* Nothing is left of directory dir
Removed(dir) == \A q \in DOMAIN fs : q # dir /\ ~StrictlyUnder(q, dir)

\* C13 as stated: whenever ProcessEvent handled a release or push event and
\* the use case returned a result with a non-empty TempDir, that directory
\* no longer exists when ProcessEvent has returned.
C13_AlwaysCleaned ==
    ReturnedWithTempDir => Removed(ucOut.TempDir)

\* C13, amended: in that case ProcessEvent has called os.RemoveAll on the
\* directory and returns nil; the directory no longer exists unless that
\* removal failed, which is only logged.
C13_CleanedUnlessRemovalFails ==
    ReturnedWithTempDir =>
        /\ pErr = Nil
        /\ ~pRmFailed => Removed(ucOut.TempDir)

\* C13 witness: a push event whose archive was extracted, files included,
\* and whose directory is gone when ProcessEvent has returned
C13_Witness ==
    /\ ReturnedWithTempDir
    /\ pEvent.eventType = "push"
    /\ ucOut.TempDir = <<"tmp", "shepherd-release-1">>
    /\ created # {}
    /\ ~pRmFailed
    /\ Removed(ucOut.TempDir)

\* The owner, repository and commit of the event ProcessEvent was called with
EventCommit ==
    [owner |-> pEvent.payload.owner,
     repo |-> pEvent.payload.name,
     ref |-> IF pEvent.eventType = "release" THEN pEvent.payload.target
             ELSE pEvent.payload.headID]

\* C17: DownloadZipball is called at most once per call, with the owner,
\* repository and commit of the event; and if it returned an error, the
\* use case has returned a nil result and that error wrapped in "failed to
\* download zipball", no temporary directory was created and extractZip
\* was not entered.
C17_DownloadError ==
    /\ Len(downloads) <= 1
    /\ \A k \in DOMAIN downloads :
          /\ downloads[k].owner = EventCommit.owner
          /\ downloads[k].repo = EventCommit.repo
          /\ downloads[k].ref = EventCommit.ref
          /\ downloads[k].err # Nil =>
                /\ ucOut.returned
                /\ ~ucOut.hasResult
                /\ ucOut.TempDir = <<>>
                /\ ucOut.err # Nil
                /\ ucOut.err = <<"failed to download zipball">> \o downloads[k].err
                /\ xpc = "start"
                /\ tempDir = <<>>
                /\ fs = InitFS
                /\ created = {}
                /\ opened = {}

\* C17 witness: a release event with a valid archive waiting, whose download
\* failed: ProcessRelease has returned the error
C17_Witness ==
    /\ pEvent.eventType = "release"
    /\ Len(releaseCalls) = 1
    /\ zipData.valid
    /\ Len(downloads) = 1
    /\ downloads[1].err # Nil
    /\ downloads[1].err = <<"download error">>
    /\ ucOut.returned
    /\ ppc = "returned"

\* The event is a release event with action "released"
IsReleased ==
    /\ pEvent.eventType = "release"
    /\ pEvent.payload.kind = "ReleaseEvent"
    /\ pEvent.payload.action = "released"

\* C18: the release use case is invoked only for a release event with
\* action "released", the source-code use case only for a push event, and
\* never both; for any other event type, and for a release event with
\* another action, ProcessEvent returns nil and no use case was invoked;
\* and when a use case has returned an error, ProcessEvent returns it.
C18_Routing ==
    /\ releaseCalls # <<>> => (IsReleased /\ sourceCalls = <<>>)
    /\ sourceCalls # <<>> => (pEvent.eventType = "push" /\ releaseCalls = <<>>)
    /\ (/\ ppc = "returned"
        /\ \/ pEvent.eventType \notin {"release", "push"}
           \/ pEvent.eventType = "release" /\ ~IsReleased)
       => /\ pErr = Nil
          /\ releaseCalls = <<>>
          /\ sourceCalls = <<>>
          /\ downloads = <<>>
    /\ (ppc = "returned" /\ ucOut.returned /\ ucOut.err # Nil)
       => (pErr # Nil /\ pErr = ucOut.err)

\* C18 witness: the release use case was invoked for a "released" event,
\* the extraction behind it failed, and ProcessEvent returned that error
C18_Witness ==
    /\ ppc = "returned"
    /\ IsReleased
    /\ Len(releaseCalls) = 1
    /\ ucOut.returned
    /\ ucOut.err # Nil
    /\ ucOut.err[1] = "failed to extract zip"
    /\ pErr = ucOut.err

\* C19: a push event without head commit makes ProcessEvent return a
\* "missing head commit" error, one without repository an error, and in
\* neither case is the source-code use case invoked.
C19_MissingHeadCommit ==
    (/\ ppc = "returned"
     /\ pEvent.eventType = "push"
     /\ pEvent.payload.kind = "PushEvent")
    => /\ ~pEvent.payload.hasRepo => (pErr # Nil /\ sourceCalls = <<>>)
       /\ (pEvent.payload.hasRepo /\ ~pEvent.payload.hasHead) =>
             /\ pErr # Nil
             /\ pErr = <<"missing head commit">>
             /\ sourceCalls = <<>>

(***************************************************************************)
(* The serve command.  The action of cmdServe starts the HTTP server in a  *)
(* goroutine, waits for the command context to be done or for a signal,    *)
(* and calls server.Shutdown with a context derived from the command       *)
(* context with a timeout.  Shutdown closes the listener and then checks   *)
(* again and again whether a request is still served; between two checks   *)
(* it waits for its context to be done.                                    *)
(***************************************************************************)

\* Requests served at the same time
MaxInflight == 1

\* The timeout of the shutdown context, in seconds
GracePeriod == 10

\* shutdownCtx.Err() of context.WithTimeout(ctx, 10*time.Second): the
\* context is a child of the command context, and is done with it
ShutdownCtxErrs(cd, el) ==
    (IF cd THEN {"context canceled"} ELSE {})
    \cup (IF el >= GracePeriod THEN {"context deadline exceeded"} ELSE {})

\* The server accepts a request
ServeAccept ==
    /\ spc # "returned"
    /\ listening
    /\ inflight < MaxInflight
    /\ inflight' = inflight + 1
    /\ UNCHANGED <<spc, sTrigger, ctxDone, elapsed, listening, sErr, sawDeadline>>
    /\ UNCHANGED <<exVars, dVars, wVars, pVars, mVars, gVars>>

\* A request is answered
ServeFinish ==
    /\ spc # "returned"
    /\ inflight > 0
    /\ inflight' = inflight - 1
    /\ UNCHANGED <<spc, sTrigger, ctxDone, elapsed, listening, sErr, sawDeadline>>
    /\ UNCHANGED <<exVars, dVars, wVars, pVars, mVars, gVars>>

\* The command context is cancelled
CancelCommand ==
    /\ spc # "returned"
    /\ ~ctxDone
    /\ ctxDone' = TRUE
    /\ UNCHANGED <<spc, sTrigger, elapsed, inflight, listening, sErr, sawDeadline>>
    /\ UNCHANGED <<exVars, dVars, wVars, pVars, mVars, gVars>>

\* The select of the command ends with trigger tr; the shutdown context is
\* created and Shutdown closes the listener
BeginShutdown(tr) ==
    /\ spc = "serving"
    /\ sTrigger' = tr
    /\ spc' = "check"
    /\ elapsed' = 0
    /\ listening' = FALSE
    /\ UNCHANGED <<ctxDone, inflight, sErr, sawDeadline>>
    /\ UNCHANGED <<exVars, dVars, wVars, pVars, mVars, gVars>>

\* case sig := <-sigChan
SelectSignal == spc = "serving" /\ BeginShutdown("signal")

\* case <-ctx.Done()
SelectContext == ctxDone /\ BeginShutdown("context")

\* A second passes while Shutdown runs
Tick ==
    /\ spc \in {"check", "select"}
    /\ elapsed < GracePeriod
    /\ elapsed' = elapsed + 1
    /\ UNCHANGED <<spc, sTrigger, ctxDone, inflight, listening, sErr, sawDeadline>>
    /\ UNCHANGED <<exVars, dVars, wVars, pVars, mVars, gVars>>

\* Shutdown looks for requests still served: with none it returns nil and
\* the command returns nil, otherwise it waits
ShutdownCheck ==
    /\ spc = "check"
    /\ IF inflight = 0
       THEN spc' = "returned" /\ sErr' = Nil
       ELSE spc' = "select" /\ UNCHANGED sErr
    /\ UNCHANGED <<sTrigger, ctxDone, elapsed, inflight, listening, sawDeadline>>
    /\ UNCHANGED <<exVars, dVars, wVars, pVars, mVars, gVars>>

\* The poll timer of Shutdown fires
ShutdownPoll ==
    /\ spc = "select"
    /\ spc' = "check"
    /\ UNCHANGED <<sTrigger, ctxDone, elapsed, inflight, listening, sErr, sawDeadline>>
    /\ UNCHANGED <<exVars, dVars, wVars, pVars, mVars, gVars>>

\* The shutdown context is done: Shutdown returns its error and the command
\* returns "failed to shutdown server gracefully"
ShutdownGiveUp ==
    /\ spc = "select"
    /\ \E e \in ShutdownCtxErrs(ctxDone, elapsed) :
          /\ sErr' = e
          /\ sawDeadline' = (e = "context deadline exceeded")
    /\ spc' = "returned"
    /\ UNCHANGED <<sTrigger, ctxDone, elapsed, inflight, listening>>
    /\ UNCHANGED <<exVars, dVars, wVars, pVars, mVars, gVars>>

InitServe ==
    /\ DispatchIdle
    /\ WebhookIdle(FALSE)
    /\ ProcessorIdle(NoEvent)
    /\ ModelIdle
    /\ ServeIdle
    /\ DetectorIdle
    /\ ExtractIdle("extractZip", [valid |-> FALSE, files |-> <<>>])

NextServe ==
    \/ ServeAccept
    \/ ServeFinish
    \/ CancelCommand
    \/ SelectSignal
    \/ SelectContext
    \/ Tick
    \/ ShutdownCheck
    \/ ShutdownPoll
    \/ ShutdownGiveUp

SpecServe == InitServe /\ [][NextServe]_vars

\* C21: on either trigger the server stops listening and is shut down with
\* a grace period of 10 seconds: the command reports a failed shutdown only
\* after requests in flight had the 10 seconds to complete.
C21_GracePeriod ==
    /\ spc # "serving" => (sTrigger \in {"signal", "context"} /\ ~listening)
    /\ (spc = "returned" /\ sErr # Nil) => elapsed >= GracePeriod

(***************************************************************************)
(* The package detector.  DetectPackageUpdate decodes the payload, asks    *)
(* the LLM for a detection, posts a comment when the detection is a        *)
(* package update and then calls ExtractPackageVersionSources, which for   *)
(* a Go detection extracts the sources of both versions of every package   *)
(* into temporary directories and removes them when it returns.            *)
(***************************************************************************)

\* Packages in one detection
MaxPackages == 2

\* strings.ToLower on one letter
LowerChar(c) ==
    CASE c = "G" -> "g"
      [] c = "O" -> "o"
      [] c = "J" -> "j"
      [] OTHER -> c

\* strings.ToLower(s), a string being the sequence of its letters
ToLower(str) == [i \in DOMAIN str |-> LowerChar(str[i])]

\* The languages a detection names
Languages ==
    { <<"g", "o">>, <<"G", "o">>, <<"G", "O">>, <<"g", "O">>,
      <<"J", "a", "v", "a">>, <<"g", "o", "l", "a", "n", "g">>, <<>> }

\* The i-th package of a detection: its name and the two versions
Pkg(i) == [Name |-> i, FromVersion |-> 10 * i, ToVersion |-> 10 * i + 1]

PackageLists == { [i \in 1..n |-> Pkg(i)] : n \in 0..MaxPackages }

\* How DetectFromPRInfo ends
LLMAnswers == {"ok", "generate error", "parse error"}

\* How the extraction of one version ends
VersionOutcomes ==
    {"resolve error", "unsupported host", "download error", "mkdirtemp error",
     "unzip error", "ok"}

\* One operation on a collaborator or on the file system
Op(op, pkg, version, dir, out) ==
    [op |-> op, pkg |-> pkg, version |-> version, dir |-> dir, out |-> out]

\* An extraction that goes on with every language
SkipExtraction_AnyLanguage(det) == ~det.IsPackageUpdate

\* The two early returns of ExtractPackageVersionSources
SkipExtraction(det) ==
    \/ ~det.IsPackageUpdate
    \/ ToLower(det.Language) # <<"g", "o">>

\* A detector that comments on every pull request
ShouldComment_Always(det) == TRUE

\* if detection.IsPackageUpdate
ShouldComment(det) == det.IsPackageUpdate

\* A detector that goes on to the extraction when the comment failed
AfterComment_Ignore(cerr) == [pc |-> "extract", err |-> Nil]

\* What follows postComment: its error ends DetectPackageUpdate
AfterComment(cerr) ==
    IF cerr # Nil
    THEN [pc |-> "returned", err |-> "failed to post comment"]
    ELSE [pc |-> "extract", err |-> Nil]

\* What DetectPackageUpdate returns after ExtractPackageVersionSources
AfterExtraction(exErr, failures) == Nil

\* A loop that ends at the first failure
AfterFailure_Break(i, n) == n + 1

\* continue: the index of the package the loop goes on with after a failure
AfterFailure(i, n) == i + 1

\* return nil at the end of ExtractPackageVersionSources
ExtractResult(failures) == Nil

\* A cleanup of the from-version that is deferred only together with the
\* cleanup of the to-version
DeferCleanup_Late(deferred, phase, dir) ==
    IF phase = "to" THEN deferred \o <<dir - 1, dir>> ELSE deferred

\* defer fromCleanup() / defer toCleanup()
DeferCleanup(deferred, phase, dir) == Append(deferred, dir)

\* extractGoPackageSource(ctx, packageName, version) when its environment
\* makes it end with outcome: the operations it performs, the directory it
\* returns (0 with an error) and the directories it leaves behind.  dir is
\* the directory os.MkdirTemp would create, rmOK whether os.RemoveAll works.
extractGoPackageSource(pkg, version, outcome, dir, rmOK) ==
    LET resolve(out) == Op("resolveGoModuleRepo", pkg, version, 0, out)
        download(out) == Op("DownloadZipball", pkg, version, 0, out)
        mkdir(out) == Op("MkdirTemp", pkg, version, IF out = "ok" THEN dir ELSE 0, out)
        remove == Op("RemoveAll", pkg, version, dir, IF rmOK THEN "ok" ELSE "error")
    IN CASE outcome = "resolve error" ->
              [ops |-> <<resolve("error")>>, dir |-> 0, left |-> {}, ok |-> FALSE]
         [] outcome = "unsupported host" ->
              [ops |-> <<resolve("ok")>>, dir |-> 0, left |-> {}, ok |-> FALSE]
         [] outcome = "download error" ->
              [ops |-> <<resolve("ok"), download("error")>>, dir |-> 0, left |-> {},
               ok |-> FALSE]
         [] outcome = "mkdirtemp error" ->
              [ops |-> <<resolve("ok"), download("ok"), mkdir("error")>>, dir |-> 0,
               left |-> {}, ok |-> FALSE]
         [] outcome = "unzip error" ->
              [ops |-> <<resolve("ok"), download("ok"), mkdir("ok"), remove>>,
               dir |-> 0, left |-> IF rmOK THEN {} ELSE {dir}, ok |-> FALSE]
         [] OTHER ->
              [ops |-> <<resolve("ok"), download("ok"), mkdir("ok")>>, dir |-> dir,
               left |-> {dir}, ok |-> TRUE]

\* The directories os.MkdirTemp created so far
CreatedDirs(ops) == { ops[k].dir : k \in { j \in DOMAIN ops : ops[j].op = "MkdirTemp" /\ ops[j].out = "ok" } }

\* DetectPackageUpdate up to the detection: the payload is decoded and
\* DetectFromPRInfo asks the LLM
Detect ==
    /\ gpc = "start"
    /\ gEntry = "DetectPackageUpdate"
    /\ gInput.payloadOK
    /\ IF gInput.llm = "ok"
       THEN /\ gOps' = Append(gOps, Op("GenerateContent", 0, 0, 0, "ok"))
            /\ gpc' = "detected"
            /\ UNCHANGED gErr
       ELSE /\ gOps' = Append(gOps, Op("GenerateContent", 0, 0, 0,
                                      IF gInput.llm = "generate error" THEN "error" ELSE "ok"))
            /\ gpc' = "returned"
            /\ gErr' = "failed to detect package updates from PR"
    /\ UNCHANGED <<gEntry, gInput, gDirs, gRmFailed, gDeferred, gIdx, gPhase,
                   gFailures, gExtract, gExErr>>
    /\ UNCHANGED <<exVars, dVars, wVars, pVars, mVars, sVars>>

\* json.Unmarshal of the payload fails
DetectBadPayload ==
    /\ gpc = "start"
    /\ gEntry = "DetectPackageUpdate"
    /\ ~gInput.payloadOK
    /\ gpc' = "returned"
    /\ gErr' = "failed to unmarshal PR event"
    /\ UNCHANGED <<gEntry, gInput, gOps, gDirs, gRmFailed, gDeferred, gIdx, gPhase,
                   gFailures, gExtract, gExErr>>
    /\ UNCHANGED <<exVars, dVars, wVars, pVars, mVars, sVars>>

\* DetectPackageUpdate after the detection: the comment is posted for a
\* package update, and its failure ends the call
Comment ==
    /\ gpc = "detected"
    /\ IF ShouldComment(gInput.detection)
       THEN \E cerr \in {Nil, "failed to create comment"} :
               LET next == AfterComment(cerr) IN
                  /\ gOps' = Append(gOps, Op("CreateComment", 0, 0, 0,
                                            IF cerr = Nil THEN "ok" ELSE "error"))
                  /\ gpc' = next.pc
                  /\ gErr' = next.err
       ELSE /\ gpc' = "returned"
            /\ gErr' = Nil
            /\ UNCHANGED gOps
    /\ UNCHANGED <<gEntry, gInput, gDirs, gRmFailed, gDeferred, gIdx, gPhase,
                   gFailures, gExtract, gExErr>>
    /\ UNCHANGED <<exVars, dVars, wVars, pVars, mVars, sVars>>

\* What the caller of ExtractPackageVersionSources gets: the error itself,
\* or what DetectPackageUpdate makes of it
ReturnOf(entry, exErr, failures) ==
    IF entry = "DetectPackageUpdate" THEN AfterExtraction(exErr, failures) ELSE exErr

\* ExtractPackageVersionSources is called: it returns nil at once for a
\* detection it skips, and enters the loop otherwise
ExtractBegin ==
    /\ gpc = "extract"
    /\ IF SkipExtraction(gInput.detection)
       THEN /\ gExtract' = "returned"
            /\ gExErr' = Nil
            /\ gpc' = "returned"
            /\ gErr' = ReturnOf(gEntry, Nil, 0)
       ELSE /\ gExtract' = "running"
            /\ gpc' = "loop"
            /\ UNCHANGED <<gExErr, gErr>>
    /\ UNCHANGED <<gEntry, gInput, gOps, gDirs, gRmFailed, gDeferred, gIdx, gPhase,
                   gFailures>>
    /\ UNCHANGED <<exVars, dVars, wVars, pVars, mVars, sVars>>

\* One extractGoPackageSource call of the loop and what the loop does with
\* its result
ExtractVersion ==
    /\ gpc = "loop"
    /\ gIdx <= Len(gInput.detection.Packages)
    /\ \E outcome \in VersionOutcomes, rmOK \in BOOLEAN :
          LET pkg == gInput.detection.Packages[gIdx]
              version == IF gPhase = "from" THEN pkg.FromVersion ELSE pkg.ToVersion
              dir == Cardinality(CreatedDirs(gOps)) + 1
              r == extractGoPackageSource(pkg.Name, version, outcome, dir, rmOK)
          IN /\ outcome # "unzip error" => rmOK
             /\ gOps' = gOps \o r.ops
             /\ gDirs' = gDirs \cup r.left
             /\ gRmFailed' = gRmFailed \cup (IF r.ok THEN {} ELSE r.left)
             /\ IF r.ok
                THEN /\ gDeferred' = DeferCleanup(gDeferred, gPhase, r.dir)
                     /\ gIdx' = IF gPhase = "from" THEN gIdx ELSE gIdx + 1
                     /\ gPhase' = IF gPhase = "from" THEN "to" ELSE "from"
                     /\ UNCHANGED gFailures
                ELSE /\ gIdx' = AfterFailure(gIdx, Len(gInput.detection.Packages))
                     /\ gPhase' = "from"
                     /\ gFailures' = gFailures + 1
                     /\ UNCHANGED gDeferred
    /\ UNCHANGED <<gEntry, gInput, gpc, gExtract, gExErr, gErr>>
    /\ UNCHANGED <<exVars, dVars, wVars, pVars, mVars, sVars>>

\* The loop is over: ExtractPackageVersionSources returns, its deferred
\* cleanup functions run last deferred first, and each os.RemoveAll either
\* removes the directory or fails
ExtractEnd ==
    /\ gpc = "loop"
    /\ gIdx > Len(gInput.detection.Packages)
    /\ \E fails \in SUBSET { gDeferred[k] : k \in DOMAIN gDeferred } :
          /\ gOps' = gOps \o
                [k \in 1..Len(gDeferred) |->
                    LET d == gDeferred[Len(gDeferred) + 1 - k] IN
                       Op("RemoveAll", 0, 0, d, IF d \in fails THEN "error" ELSE "ok")]
          /\ gDirs' = gDirs \ ({ gDeferred[k] : k \in DOMAIN gDeferred } \ fails)
          /\ gRmFailed' = gRmFailed \cup fails
    /\ gDeferred' = <<>>
    /\ gExtract' = "returned"
    /\ gExErr' = ExtractResult(gFailures)
    /\ gpc' = "returned"
    /\ gErr' = ReturnOf(gEntry, ExtractResult(gFailures), gFailures)
    /\ UNCHANGED <<gEntry, gInput, gIdx, gPhase, gFailures>>
    /\ UNCHANGED <<exVars, dVars, wVars, pVars, mVars, sVars>>

InitDetector ==
    /\ DispatchIdle
    /\ WebhookIdle(FALSE)
    /\ ProcessorIdle(NoEvent)
    /\ ModelIdle
    /\ ServeIdle
    /\ ExtractIdle("extractZip", [valid |-> FALSE, files |-> <<>>])
    /\ \E entry \in {"DetectPackageUpdate", "ExtractPackageVersionSources"},
          payloadOK \in BOOLEAN, llm \in LLMAnswers, isUpdate \in BOOLEAN,
          language \in Languages, packages \in PackageLists :
          /\ entry = "ExtractPackageVersionSources" => (payloadOK /\ llm = "ok")
          /\ ~payloadOK => (llm = "parse error" /\ ~isUpdate)
          /\ DetectorCalled(entry, DetectorInput(payloadOK, llm,
                                                 Detection(isUpdate, language, packages)))

NextDetector ==
    \/ Detect
    \/ DetectBadPayload
    \/ Comment
    \/ ExtractBegin
    \/ ExtractVersion
    \/ ExtractEnd

SpecDetector == InitDetector /\ [][NextDetector]_vars

\* The ways to write "go"
GoSpellings == { <<"g", "o">>, <<"G", "o">>, <<"g", "O">>, <<"G", "O">> }

OpsNamed(names) == { k \in DOMAIN gOps : gOps[k].op \in names }

ExtractionOps == {"resolveGoModuleRepo", "DownloadZipball", "MkdirTemp", "RemoveAll"}

\* C24: for a detection that is not a package update, or whose language is
\* not "go" in any spelling, ExtractPackageVersionSources returns nil and
\* neither resolves a module, downloads a zipball nor creates a temporary
\* directory.
C24_SkippedWithoutDownload ==
    (~gInput.detection.IsPackageUpdate \/ gInput.detection.Language \notin GoSpellings)
    => /\ OpsNamed(ExtractionOps) = {}
       /\ gDirs = {}
       /\ gExtract # "running"
       /\ gExtract = "returned" => gExErr = Nil
       /\ (gEntry = "ExtractPackageVersionSources" /\ gpc = "returned")
             => (gExtract = "returned" /\ gErr = Nil)

\* C24 witness: ExtractPackageVersionSources returned for a package update
\* of another language that lists a package
C24_Witness ==
    /\ gEntry = "ExtractPackageVersionSources"
    /\ gpc = "returned"
    /\ gExtract = "returned"
    /\ gInput.detection.IsPackageUpdate
    /\ gInput.detection.Language = <<"J", "a", "v", "a">>
    /\ Len(gInput.detection.Packages) >= 1
    /\ gOps = <<>>
    /\ gErr = Nil

Detected == gInput.payloadOK /\ gInput.llm = "ok"

\* C25: DetectPackageUpdate posts a comment, once, exactly when the LLM's
\* detection says package update; when it says no, no comment is posted,
\* no zipball is downloaded and nil is returned.
C25_CommentIffUpdate ==
    gEntry = "DetectPackageUpdate" =>
       /\ Cardinality(OpsNamed({"CreateComment"})) <= 1
       /\ OpsNamed({"CreateComment"}) # {}
             => (Detected /\ gInput.detection.IsPackageUpdate)
       /\ (Detected /\ gInput.detection.IsPackageUpdate
             /\ gpc \in {"extract", "loop", "returned"})
             => OpsNamed({"CreateComment"}) # {}
       /\ (Detected /\ ~gInput.detection.IsPackageUpdate)
             => /\ OpsNamed({"CreateComment", "DownloadZipball"}) = {}
                /\ gpc = "returned" => gErr = Nil

\* C25 witness: the LLM answered that a Go pull request with a package is
\* no package update, and DetectPackageUpdate returned nil after the LLM
\* call alone
C25_Witness ==
    /\ gEntry = "DetectPackageUpdate"
    /\ gpc = "returned"
    /\ Detected
    /\ ~gInput.detection.IsPackageUpdate
    /\ gInput.detection.Language = <<"g", "o">>
    /\ Len(gInput.detection.Packages) >= 1
    /\ Len(gOps) = 1
    /\ gOps[1].op = "GenerateContent"
    /\ gErr = Nil

\* The directories an os.RemoveAll call failed to remove
FailedRemovals ==
    { gOps[k].dir : k \in { j \in OpsNamed({"RemoveAll"}) : gOps[j].out = "error" } }

\* C28 as stated: when ExtractPackageVersionSources has returned, no
\* temporary directory created during the call exists.
C28_NoDirectoryLeft == gExtract = "returned" => gDirs = {}

\* C28: when ExtractPackageVersionSources has returned, os.RemoveAll was
\* called on every temporary directory created during the call, and the
\* directories that still exist are those whose removal failed.
C28_RemovedUnlessRemovalFails ==
    gExtract = "returned" =>
       /\ \A d \in CreatedDirs(gOps) :
             \E k \in OpsNamed({"RemoveAll"}) : gOps[k].dir = d
       /\ gDirs = FailedRemovals

\* C28 witness: the from-version of the first package was extracted, its
\* to-version failed, and after the return nothing is left
C28_Witness ==
    /\ gExtract = "returned"
    /\ \E k \in OpsNamed({"MkdirTemp"}) :
          /\ gOps[k].out = "ok"
          /\ gOps[k].version = Pkg(1).FromVersion
    /\ \E k \in OpsNamed({"resolveGoModuleRepo"}) :
          /\ gOps[k].out = "error"
          /\ gOps[k].version = Pkg(1).ToVersion
    /\ CreatedDirs(gOps) # {}
    /\ FailedRemovals = {}
    /\ gDirs = {}

\* C29: in DetectPackageUpdate the LLM is asked before the comment is
\* posted, and the comment is posted before anything of the extraction.  A
\* failed detection ends in an error without a comment; a failed comment
\* ends in an error without the extraction; failures of the extraction
\* after a posted comment end in nil.
C29_StepOrder ==
    gEntry = "DetectPackageUpdate" =>
       /\ \A j \in OpsNamed({"CreateComment"}) :
             /\ \E k \in OpsNamed({"GenerateContent"}) : k < j
             /\ \A k \in OpsNamed(ExtractionOps) : j < k
       /\ OpsNamed(ExtractionOps) # {} \/ gExtract # "not called"
             => \E j \in OpsNamed({"CreateComment"}) : gOps[j].out = "ok"
       /\ (gInput.payloadOK /\ gInput.llm # "ok")
             => /\ OpsNamed({"CreateComment"}) = {}
                /\ gpc \in {"start", "returned"}
                /\ gpc = "returned" => gErr = "failed to detect package updates from PR"
       /\ (\E j \in OpsNamed({"CreateComment"}) : gOps[j].out = "error")
             => /\ gpc = "returned"
                /\ gErr = "failed to post comment"
                /\ gExtract = "not called"
                /\ OpsNamed(ExtractionOps) = {}
       /\ (gpc = "returned" /\ \E j \in OpsNamed({"CreateComment"}) : gOps[j].out = "ok")
             => (gExtract = "returned" /\ gErr = Nil)

\* C29 witness: the comment was posted, the extraction of a version failed
\* afterwards, and DetectPackageUpdate returned nil
C29_Witness ==
    /\ gEntry = "DetectPackageUpdate"
    /\ gpc = "returned"
    /\ \E j \in OpsNamed({"CreateComment"}) : gOps[j].out = "ok"
    /\ gFailures > 0
    /\ \E k \in OpsNamed({"DownloadZipball"}) : gOps[k].out = "error"
    /\ gErr = Nil

\* extractGoPackageSource returned a directory for this version
VersionSucceeded(v) ==
    /\ \E k \in OpsNamed({"MkdirTemp"}) : gOps[k].version = v /\ gOps[k].out = "ok"
    /\ ~\E k \in OpsNamed({"RemoveAll"}) : gOps[k].version = v

VersionAttempted(v) ==
    \E k \in OpsNamed({"resolveGoModuleRepo"}) : gOps[k].version = v

\* C30: when ExtractPackageVersionSources has returned from its loop, the
\* from-version of every package of the detection was attempted whatever
\* failed before it, the versions were attempted in the order of the
\* detection, the to-version of a package was attempted exactly when its
\* from-version had succeeded, and nil was returned.
C30_LoopContinues ==
    (gExtract = "returned" /\ gInput.detection.Language \in GoSpellings
       /\ gInput.detection.IsPackageUpdate)
    => /\ \A i \in DOMAIN gInput.detection.Packages :
             /\ VersionAttempted(gInput.detection.Packages[i].FromVersion)
             /\ VersionAttempted(gInput.detection.Packages[i].ToVersion)
                   <=> VersionSucceeded(gInput.detection.Packages[i].FromVersion)
       /\ \A j, k \in OpsNamed({"resolveGoModuleRepo"}) :
             j < k => gOps[j].version < gOps[k].version
       /\ gExErr = Nil
       /\ gEntry = "ExtractPackageVersionSources" => gErr = Nil

\* C30 witness: the from-version of the first package failed, both versions
\* of the second package were extracted, and nil was returned
C30_Witness ==
    /\ gExtract = "returned"
    /\ gEntry = "ExtractPackageVersionSources"
    /\ Len(gInput.detection.Packages) >= 2
    /\ ~VersionSucceeded(Pkg(1).FromVersion)
    /\ VersionSucceeded(Pkg(2).FromVersion)
    /\ VersionSucceeded(Pkg(2).ToVersion)
    /\ gFailures = 1
    /\ gErr = Nil

====
